---- MODULE Spec2Model ----
(***************************************************************************)
(* A model of ab_plugin_manager: the plugin manager (PluginManagerImpl),   *)
(* its step resolver get_operation_sequence, which orders the steps the    *)
(* plugins contribute with graphlib.TopologicalSorter, and its operation   *)
(* cache (operation_cache / drop_operation_cache).                         *)
(*                                                                         *)
(* Specifications:                                                         *)
(*   SpecResolver   one manager, the resolver and the iteration of the     *)
(*                  generator it returns;                                  *)
(*   SpecCache      one manager, calls of operation_cache and              *)
(*                  drop_operation_cache made one after another;           *)
(*   SpecCacheConc  the same cache used by threads that interleave;        *)
(*   SpecAmbient    the ambient manager (PluginManager._current, a         *)
(*                  ContextVar) seen by a task and the tasks and threads   *)
(*                  it spawns;                                             *)
(*   SpecChain      a wrapper chain (WrapperCallOperation and              *)
(*                  AsyncWrapperCallOperation) run over a step sequence;   *)
(*   SpecParallel   the parallel-async runner: one task per step, joined   *)
(*                  on the tasks of the step's dependencies;               *)
(*   SpecSequential call_all and call_until_first_result over a step       *)
(*                  sequence;                                              *)
(*   SpecHandle     MagicOperation.get_steps with and without cache_steps; *)
(*   SpecLauncher   launch_application: startup operations, init to end;   *)
(*   SpecDiscovery  PluginDiscoveryPlugin.bootstrap over the plugin files; *)
(*   SpecManagers   one handle used under two managers, each with its own  *)
(*                  plugins and its own cache.                             *)
(***************************************************************************)
EXTENDS Integers, Sequences, FiniteSets, TLC

VARIABLES
    plugins,    \* PluginManagerImpl._plugins: the registered plugins, in order
    logged,     \* the logger.warning calls made by the last get_operation_sequence
    gen,        \* the generator returned by the last get_operation_sequence
    raised,     \* the exception the last get_operation_sequence raised
    yielded,    \* the steps the consumer has received from gen
    seqLog,     \* per operation: the outcome of the last completed resolution
    hint,       \* the dangling dependency a plugin author added, and the outcome before
    op_cache,   \* PluginManagerImpl._op_cache: operation -> key -> value
    stores,     \* per (operation, key): the computed values stored since it was last absent
    lastCall,   \* the last operation_cache call: arguments and outcome
    lastDrop,   \* the last drop_operation_cache call: arguments and outcome
    threads,    \* SpecCacheConc: each thread's position inside operation_cache
    orphans,    \* SpecCacheConc: scopes removed from the cache that a thread still holds
    contexts,   \* SpecAmbient: per context, the value of PluginManager._current in it
    tasks,      \* SpecAmbient: per task, its context and its open as_current scopes
    observed,   \* SpecAmbient: what the last current() and current_maybe() calls gave
    chain,      \* SpecChain: the wrapper chain being run, its position and its log
    par,        \* SpecParallel: the caller of the runner and the task of every step
    srun,       \* SpecSequential: the last run of a sequential runner and its log
    handle,     \* SpecHandle: the get_steps calls made on the handles and their results
    launch,     \* SpecLauncher: the position of launch_application and the operations run
    discovery,  \* SpecDiscovery: the discovery plugin, the files and what was done to them
    managers    \* SpecManagers: per manager its plugins and its _op_cache, and the ambient one

resolverVars == <<plugins, logged, gen, raised, yielded, seqLog, hint>>
cacheVars == <<op_cache, stores, lastCall, lastDrop>>
concVars == <<threads, orphans>>
ambientVars == <<contexts, tasks, observed>>
managerVars == <<resolverVars, cacheVars, concVars>>
chainVars == <<chain>>
runnerVars == <<par, srun>>
appVars == <<handle, launch, discovery, managers>>
outsideVars == <<ambientVars, chainVars, runnerVars, appVars>>
notAmbientVars == <<managerVars, chainVars, runnerVars, appVars>>
notChainVars == <<managerVars, ambientVars, runnerVars, appVars>>
notParVars == <<managerVars, ambientVars, chainVars, srun, appVars>>
notSeqVars == <<managerVars, ambientVars, chainVars, par, appVars>>
notHandleVars == <<resolverVars, stores, lastCall, lastDrop, concVars, ambientVars, chainVars,
                   runnerVars, launch, discovery, managers>>
notLaunchVars == <<managerVars, ambientVars, chainVars, runnerVars, handle, discovery,
                   managers>>
notDiscoveryVars == <<managerVars, ambientVars, chainVars, runnerVars, handle, launch,
                      managers>>
notManagersVars == <<managerVars, ambientVars, chainVars, runnerVars, handle, launch,
                     discovery>>
vars == <<managerVars, outsideVars>>

(***************************************************************************)
(* Bounds of the model.                                                    *)
(***************************************************************************)
\* the steps all plugins together contribute for one operation
MaxSteps == 3
\* the dependency and reverse-dependency entries of all those steps together
MaxEdges == 2
\* the steps the plugins of one of two managers contribute for one operation
MaxManagerSteps == 1
\* the dependency and reverse-dependency entries of those steps together
MaxManagerEdges == 1
\* the length of the operations=/keys= arguments of drop_operation_cache
MaxArgLen == 2
MaxDepth == 2
MaxChain == 3
\* The longest list of result checks a handle is given.
MaxChecks == 2
\* The most steps the init operation and the run operation of a launch have.
MaxTasks == 2

NameOrder == <<"a", "b", "c">>
Names == {NameOrder[i] : i \in 1..Len(NameOrder)}
Ops == {"init", "run"}
\* The operations of plugin discovery, the names of the plugins found in files and
\* the names of the steps of these operations.
DiscoveryOps == {"discover_plugins_at_path", "discover_plugins_in_module", "plugin_discovered"}
DiscoveredNames == {"p1", "p2"}
DiscoveryStepNames ==
    {"discover_python_module", "discover_archive", "discover_explicit_plugins",
     "discover_magic_plugin_module", "plugin_discovered"}
    \cup {op \o "_" \o n : op \in {"discover_plugins_at_path", "plugin_discovered"},
                           n \in DiscoveredNames}
\* The names a sorter can be given as nodes.
Nodes == Names \cup DiscoveryStepNames
OpOrder == <<"init", "run">>
PluginNames == <<"P1", "P2">>
Keys == {"k1", "k2"}
Values == {42, 43}
Threads == {"t1", "t2"}

\* The sequences over S of length at most n.
SeqUpTo(S, n) == UNION {[1..m -> S] : m \in 0..n}

Range(s) == {s[i] : i \in 1..Len(s)}

RECURSIVE Concat(_)
\* The concatenation of a sequence of sequences.
Concat(ss) == IF ss = <<>> THEN <<>> ELSE Head(ss) \o Concat(Tail(ss))

\* The position of the first occurrence of x in s (0 when absent).
IndexOf(s, x) ==
    IF x \in Range(s) THEN CHOOSE i \in 1..Len(s) : s[i] = x /\ \A j \in 1..(i-1) : s[j] # x
    ELSE 0

(***************************************************************************)
(* graphlib.TopologicalSorter, as get_operation_sequence uses it.          *)
(* order is the insertion order of the _node2info dict; npredecessors and  *)
(* successors are the fields of each node's _NodeInfo.                     *)
(***************************************************************************)
NODE_OUT == -1
NODE_DONE == -2

TopologicalSorter ==
    [order |-> <<>>,
     npredecessors |-> [n \in Nodes |-> 0],
     successors |-> [n \in Nodes |-> <<>>],
     ready_nodes |-> <<>>,
     npassedout |-> 0,
     nfinished |-> 0]

\* _get_nodeinfo: a node enters _node2info the first time it is mentioned.
ts_get_nodeinfo(ts, node) ==
    IF node \in Range(ts.order) THEN ts ELSE [ts EXCEPT !.order = Append(@, node)]

RECURSIVE ts_add_preds(_, _, _)
ts_add_preds(ts, node, preds) ==
    IF preds = <<>> THEN ts
    ELSE LET t1 == ts_get_nodeinfo(ts, Head(preds))
         IN ts_add_preds([t1 EXCEPT !.successors[Head(preds)] = Append(@, node)],
                         node, Tail(preds))

\* add(node, *predecessors)
ts_add(ts, node, preds) ==
    LET t1 == ts_get_nodeinfo(ts, node)
        t2 == [t1 EXCEPT !.npredecessors[node] = @ + Len(preds)]
    IN ts_add_preds(t2, node, preds)

RECURSIVE ts_dfs(_, _, _, _, _)
RECURSIVE ts_backtrack(_, _, _, _)
\* _find_cycle, the body of its "while True" loop for the current node: stack is
\* the path, it[i] the position of stack[i]'s successor iterator.
ts_dfs(ts, stack, it, seen, node) ==
    IF node \in seen
    THEN IF node \in Range(stack)
         THEN [cycle |-> SubSeq(stack, IndexOf(stack, node), Len(stack)) \o <<node>>,
               seen |-> seen]
         ELSE ts_backtrack(ts, stack, it, seen)
    ELSE ts_backtrack(ts, Append(stack, node), Append(it, 1), seen \cup {node})

\* _find_cycle, the backtracking to the topmost stack entry with another successor.
ts_backtrack(ts, stack, it, seen) ==
    IF stack = <<>> THEN [cycle |-> <<>>, seen |-> seen]
    ELSE LET top == stack[Len(stack)]
             pos == it[Len(it)]
         IN IF pos <= Len(ts.successors[top])
            THEN ts_dfs(ts, stack, [it EXCEPT ![Len(it)] = pos + 1], seen,
                        ts.successors[top][pos])
            ELSE ts_backtrack(ts, SubSeq(stack, 1, Len(stack) - 1),
                              SubSeq(it, 1, Len(it) - 1), seen)

RECURSIVE ts_find_cycle_from(_, _, _)
\* _find_cycle, the outer loop over the nodes in insertion order.
ts_find_cycle_from(ts, nodes, seen) ==
    IF nodes = <<>> THEN <<>>
    ELSE IF Head(nodes) \in seen THEN ts_find_cycle_from(ts, Tail(nodes), seen)
    ELSE LET r == ts_dfs(ts, <<>>, <<>>, seen, Head(nodes))
         IN IF r.cycle # <<>> THEN r.cycle
            ELSE ts_find_cycle_from(ts, Tail(nodes), r.seen)

\* _find_cycle: the cycle found, its first node repeated at the end; <<>> if none.
ts_find_cycle(ts) == ts_find_cycle_from(ts, ts.order, {})

\* prepare(): the nodes without predecessors become ready, in insertion order.
ts_prepare(ts) ==
    [ts EXCEPT !.ready_nodes = SelectSeq(ts.order, LAMBDA n : ts.npredecessors[n] = 0)]

\* get_ready(): hands out every ready node; the result is the old ready_nodes.
ts_get_ready(ts) ==
    [ts EXCEPT !.npredecessors =
                   [n \in Nodes |-> IF n \in Range(ts.ready_nodes) THEN NODE_OUT ELSE @[n]],
               !.ready_nodes = <<>>,
               !.npassedout = @ + Len(ts.ready_nodes)]

\* is_active()
ts_is_active(ts) == ts.nfinished < ts.npassedout \/ ts.ready_nodes # <<>>

RECURSIVE ts_done_succ(_, _)
ts_done_succ(ts, succs) ==
    IF succs = <<>> THEN ts
    ELSE LET s == Head(succs)
             n == ts.npredecessors[s] - 1
             t1 == [ts EXCEPT !.npredecessors[s] = n,
                              !.ready_nodes = IF n = 0 THEN Append(@, s) ELSE @]
         IN ts_done_succ(t1, Tail(succs))

RECURSIVE ts_done(_, _)
\* done(*nodes)
ts_done(ts, nodes) ==
    IF nodes = <<>> THEN ts
    ELSE LET node == Head(nodes)
             t1 == [ts EXCEPT !.npredecessors[node] = NODE_DONE]
             t2 == ts_done_succ(t1, ts.successors[node])
         IN ts_done([t2 EXCEPT !.nfinished = @ + 1], Tail(nodes))

(***************************************************************************)
(* Steps and plugins.                                                      *)
(***************************************************************************)
\* OperationStep: step is the payload (here the identity of the step object).
OperationStep(payload, name, plugin, deps, rdeps) ==
    [step |-> payload, name |-> name, plugin |-> plugin,
     dependencies |-> deps, reverse_dependencies |-> rdeps]

\* Plugin.get_operation_steps(op_name)
get_operation_steps(plugin, op_name) == plugin.steps[op_name]

\* The steps in the order the two loops of get_operation_sequence visit them:
\* the plugins in registration order, each plugin's steps in the order it yields them.
ingest_order(ps, op_name) ==
    Concat([i \in 1..Len(ps) |-> get_operation_steps(ps[i], op_name)])

\* Mutant of add_reverse: the reverse dependencies are added as dependencies.
add_reverse_as_dependencies(ts, name, rdeps) == ts_add(ts, name, rdeps)

RECURSIVE add_reverse(_, _, _)
\* for reverse_dep in step.reverse_dependencies: ts.add(reverse_dep, step.name)
add_reverse(ts, name, rdeps) ==
    IF rdeps = <<>> THEN ts
    ELSE add_reverse(ts_add(ts, Head(rdeps), <<name>>), name, Tail(rdeps))

\* Mutant of ingest_step: a step whose name is taken is logged and not stored, but
\* its edges are added to the sorter.
ingest_step_keeps_edges(acc, step, op_name) ==
    IF step.name \in DOMAIN acc.steps
    THEN [acc EXCEPT !.logged = Append(@, [name |-> step.name, op_name |-> op_name,
                                           kept |-> acc.steps[step.name].plugin,
                                           ignored |-> step.plugin]),
                     !.ts = add_reverse(ts_add(@, step.name, step.dependencies),
                                        step.name, step.reverse_dependencies)]
    ELSE [acc EXCEPT !.steps = (step.name :> step) @@ @,
                     !.ts = add_reverse(ts_add(@, step.name, step.dependencies),
                                        step.name, step.reverse_dependencies)]

\* Mutant of ingest_step: a step whose name is taken replaces the stored one.
ingest_step_keep_last(acc, step, op_name) ==
    [acc EXCEPT !.steps = (step.name :> step) @@ @,
                !.ts = add_reverse(ts_add(@, step.name, step.dependencies),
                                   step.name, step.reverse_dependencies)]

\* One pass of the loop body: a step whose name is taken is logged and skipped,
\* any other is stored and its edges are added to the sorter.
ingest_step(acc, step, op_name) ==
    IF step.name \in DOMAIN acc.steps
    THEN [acc EXCEPT !.logged = Append(@, [name |-> step.name, op_name |-> op_name,
                                           kept |-> acc.steps[step.name].plugin,
                                           ignored |-> step.plugin])]
    ELSE [acc EXCEPT !.steps = (step.name :> step) @@ @,
                     !.ts = add_reverse(ts_add(@, step.name, step.dependencies),
                                        step.name, step.reverse_dependencies)]

RECURSIVE ingest_all(_, _, _)
ingest_all(acc, todo, op_name) ==
    IF todo = <<>> THEN acc
    ELSE ingest_all(ingest_step(acc, Head(todo), op_name), Tail(todo), op_name)

\* The sorter a call starts from: ts = TopologicalSorter()
new_sorter == TopologicalSorter

\* Mutant of new_steps: the steps dict of the previous call is used again.
reused_steps == IF gen.state = "finished" THEN gen.steps ELSE <<>>

\* The steps dict a call starts from: steps = {}
new_steps == <<>>

\* The state after the ingest loops: steps, ts and the warnings logged.
ingest(ps, op_name) ==
    ingest_all([steps |-> new_steps, ts |-> new_sorter, logged |-> <<>>],
               ingest_order(ps, op_name), op_name)

\* [steps.get(name, name) for name in e.args[1][1:]]: the cycle without its
\* repeated first node, a name replaced by its step where there is one.
cycle_steps(steps, cycle) ==
    [i \in 1..(Len(cycle) - 1) |->
        IF cycle[i + 1] \in DOMAIN steps
        THEN [is_step |-> TRUE, name |-> cycle[i + 1], step |-> steps[cycle[i + 1]]]
        ELSE [is_step |-> FALSE, name |-> cycle[i + 1]]]

\* DependencyCycleException(op_name, steps)
DependencyCycleException(op_name, steps) ==
    [kind |-> "DependencyCycleException", op_name |-> op_name, steps |-> steps]

NoException == [kind |-> "none"]
NoGenerator == [state |-> "none"]

RECURSIVE iterate_scan(_, _, _, _)
RECURSIVE iterate_loop(_, _)
\* Mutant of iterate_scan: a name that has no step is yielded as it is.
iterate_scan_yields_names(ts, steps, node_group, rest) ==
    IF rest = <<>> THEN iterate_loop(ts_done(ts, node_group), steps)
    ELSE (IF Head(rest) \in DOMAIN steps
          THEN <<steps[Head(rest)]>>
          ELSE <<OperationStep(Head(rest), Head(rest), "none", <<>>, <<>>)>>)
         \o iterate_scan(ts, steps, node_group, Tail(rest))

\* Mutant of iterate_scan: without the "if name in steps" test the lookup of a name
\* that has no step ends the generator.
iterate_scan_unguarded(ts, steps, node_group, rest) ==
    IF rest = <<>> THEN iterate_loop(ts_done(ts, node_group), steps)
    ELSE IF Head(rest) \in DOMAIN steps
         THEN <<steps[Head(rest)]>> \o iterate_scan(ts, steps, node_group, Tail(rest))
         ELSE <<>>

\* iterate(), the "for name in node_group" loop: a name with a step yields it; after
\* the group, ts.done(*node_group) and the while loop goes on.
iterate_scan(ts, steps, node_group, rest) ==
    IF rest = <<>> THEN iterate_loop(ts_done(ts, node_group), steps)
    ELSE IF Head(rest) \in DOMAIN steps
         THEN <<steps[Head(rest)]>> \o iterate_scan(ts, steps, node_group, Tail(rest))
         ELSE iterate_scan(ts, steps, node_group, Tail(rest))

Reverse(sq) == [i \in 1..Len(sq) |-> sq[Len(sq) + 1 - i]]

\* Mutant of iterate_loop: each node group is walked backwards.
iterate_loop_reversed(ts, steps) ==
    IF ts_is_active(ts)
    THEN iterate_scan(ts_get_ready(ts), steps, ts.ready_nodes, Reverse(ts.ready_nodes))
    ELSE <<>>

\* iterate(), the "while ts.is_active()" loop: everything the generator yields.
iterate_loop(ts, steps) ==
    IF ts_is_active(ts)
    THEN iterate_scan(ts_get_ready(ts), steps, ts.ready_nodes, ts.ready_nodes)
    ELSE <<>>

\* Mutant of get_operation_sequence_call: prepare() is left to the generator, so
\* the call itself never raises.
get_operation_sequence_lazy(ps, op_name) ==
    LET st == ingest(ps, op_name)
    IN [logged |-> st.logged,
        raised |-> NoException,
        gen |-> [state |-> "created", op_name |-> op_name,
                 ts |-> ts_prepare(st.ts), steps |-> st.steps]]

\* What a call of get_operation_sequence(op_name) does before it returns: the
\* ingest, prepare(), and the exception or the generator.
get_operation_sequence_call(ps, op_name) ==
    LET st == ingest(ps, op_name)
        prepared == ts_prepare(st.ts)
        cycle == ts_find_cycle(prepared)
    IN [logged |-> st.logged,
        raised |-> IF cycle # <<>>
                   THEN DependencyCycleException(op_name, cycle_steps(st.steps, cycle))
                   ELSE NoException,
        gen |-> IF cycle # <<>> THEN NoGenerator
                ELSE [state |-> "created", op_name |-> op_name,
                      ts |-> prepared, steps |-> st.steps]]

(***************************************************************************)
(* The resolver's state machine.                                           *)
(***************************************************************************)
NoOutcome == [kind |-> "none"]
NoHint == [kind |-> "none"]

RECURSIVE edge_targets(_, _, _)
\* The targets of the entries of es that belong to step i and are of the given kind.
edge_targets(es, i, kind) ==
    IF es = <<>> THEN <<>>
    ELSE (IF Head(es).step = i /\ Head(es).kind = kind THEN <<Head(es).target>> ELSE <<>>)
         \o edge_targets(Tail(es), i, kind)

\* The plugin that contributes the i-th step when the first k come from P1.
owner(i, k) == IF i <= k THEN PluginNames[1] ELSE PluginNames[2]

\* names[i] is the i-th step's name, es the dependency entries, k the split.
contributed(names, es, k) ==
    [i \in 1..Len(names) |->
        OperationStep(<<owner(i, k), i>>, names[i], owner(i, k),
                      edge_targets(es, i, "dep"), edge_targets(es, i, "rdep"))]

\* Two plugins; together they contribute sl for "init" and nothing for "run".
plugin_set(sl, k) ==
    <<[name |-> PluginNames[1],
       steps |-> [op \in Ops |-> IF op = "init" THEN SubSeq(sl, 1, k) ELSE <<>>]],
      [name |-> PluginNames[2],
       steps |-> [op \in Ops |-> IF op = "init" THEN SubSeq(sl, k + 1, Len(sl)) ELSE <<>>]]>>

CacheIdle ==
    /\ op_cache = <<>>
    /\ stores = [op \in Ops |-> [k \in Keys |-> 0]]
    /\ lastCall = [kind |-> "none"]
    /\ lastDrop = [kind |-> "none"]

ConcIdle == threads = <<>> /\ orphans = <<>>
AmbientIdle == contexts = <<>> /\ tasks = <<>> /\ observed = [kind |-> "none"]
ChainIdle == chain = [status |-> "idle"]
ParIdle == par = [status |-> "idle"]
SeqIdle == srun = [status |-> "idle"]
HandleIdle == handle = [status |-> "idle"]
LaunchIdle == launch = [status |-> "idle"]
DiscoveryIdle == discovery = [status |-> "idle"]
ManagersIdle == managers = [status |-> "idle"]
RunnersIdle == ParIdle /\ SeqIdle
AppIdle == HandleIdle /\ LaunchIdle /\ DiscoveryIdle /\ ManagersIdle
OutsideIdle == AmbientIdle /\ ChainIdle /\ RunnersIdle /\ AppIdle

ResolverIdle ==
    /\ logged = <<>>
    /\ gen = NoGenerator
    /\ raised = NoException
    /\ yielded = <<>>
    /\ seqLog = [op \in Ops |-> NoOutcome]
    /\ hint = NoHint

\* Step names are opaque: the resolver only compares them. Of the name choices that
\* differ by a renaming one is kept, the one whose new names appear in NameOrder.
first_use_order(names) ==
    \A i \in 1..Len(names) :
        IndexOf(NameOrder, names[i]) <= 1 + Cardinality({names[j] : j \in 1..(i - 1)})

InitResolver ==
    /\ \E n \in 0..MaxSteps :
         \E names \in {nm \in [1..n -> Names] : first_use_order(nm)} :
           \E es \in SeqUpTo([step : 1..n, kind : {"dep", "rdep"}, target : Names], MaxEdges) :
             \E k \in 0..n :
               plugins = plugin_set(contributed(names, es, k), k)
    /\ ResolverIdle
    /\ CacheIdle
    /\ ConcIdle
    /\ OutsideIdle

\* The outcome recorded for an operation: the first one completed under the current
\* plugin set is kept, and "again" tells that a later resolution has completed too.
record_outcome(log, op_name, outcome) ==
    IF log[op_name] = NoOutcome
    THEN [log EXCEPT ![op_name] = outcome @@ [again |-> FALSE]]
    ELSE [log EXCEPT ![op_name].again = TRUE]

\* pm.get_operation_sequence(op_name): raises, or returns the generator.
get_operation_sequence(op_name) ==
    LET r == get_operation_sequence_call(plugins, op_name)
    IN /\ logged' = r.logged
       /\ raised' = r.raised
       /\ gen' = r.gen
       /\ yielded' = <<>>
       /\ seqLog' = IF r.raised # NoException
                    THEN record_outcome(seqLog, op_name, [kind |-> "cycle", exc |-> r.raised])
                    ELSE seqLog
       /\ UNCHANGED <<plugins, hint, cacheVars, concVars, outsideVars>>

\* The caller consumes the generator: list(seq), or a for loop over it.
iterate ==
    /\ gen.state = "created"
    /\ yielded' = iterate_loop(gen.ts, gen.steps)
    /\ gen' = [gen EXCEPT !.state = "finished"]
    /\ seqLog' = record_outcome(seqLog, gen.op_name, [kind |-> "seq", steps |-> yielded'])
    /\ UNCHANGED <<plugins, logged, raised, hint, cacheVars, concVars, outsideVars>>

\* Every name the steps for op_name mention: their own, and in either list.
mentioned(ps, op_name) ==
    UNION {{s.name} \cup Range(s.dependencies) \cup Range(s.reverse_dependencies) :
           s \in Range(ingest_order(ps, op_name))}

\* The names that steps for op_name carry.
carried(ps, op_name) == {s.name : s \in Range(ingest_order(ps, op_name))}

\* A plugin's author adds to its i-th "init" step a dependency on a name x that
\* no step carries; the plugin returns the changed step from then on. The caller
\* keeps the outcome it had before and discards everything else it got from the
\* old plugin set.
add_dangling_dependency(p, i, x) ==
    /\ hint = NoHint
    /\ gen.state # "created"
    /\ seqLog["init"] # NoOutcome
    /\ i \in 1..Len(plugins[p].steps["init"])
    /\ x \notin carried(plugins, "init")
    /\ plugins' = [plugins EXCEPT ![p].steps["init"][i].dependencies = Append(@, x)]
    /\ hint' = [kind |-> "added", step |-> plugins[p].steps["init"][i].step, name |-> x,
                fresh |-> x \notin mentioned(plugins, "init"),
                before |-> [seqLog["init"] EXCEPT !.again = FALSE]]
    /\ logged' = <<>>
    /\ gen' = NoGenerator
    /\ raised' = NoException
    /\ yielded' = <<>>
    /\ seqLog' = [op \in Ops |-> NoOutcome]
    /\ UNCHANGED <<cacheVars, concVars, outsideVars>>

NextResolver ==
    \/ \E op \in Ops : get_operation_sequence(op)
    \/ iterate
    \/ \E p \in 1..Len(PluginNames), i \in 1..MaxSteps, x \in Names :
         add_dangling_dependency(p, i, x)

SpecResolver == InitResolver /\ [][NextResolver]_vars

(***************************************************************************)
(* What the claims about the resolver speak of, defined from the plugins'  *)
(* declarations alone (not from the sorter).                               *)
(***************************************************************************)
\* The first step ingested with the given name.
first_with(ps, op_name, name) ==
    LET o == ingest_order(ps, op_name)
    IN o[CHOOSE i \in 1..Len(o) : o[i].name = name /\ \A j \in 1..(i - 1) : o[j].name # name]

\* The retained steps, in ingest order.
retained(ps, op_name) ==
    SelectSeq(ingest_order(ps, op_name), LAMBDA s : s = first_with(ps, op_name, s.name))

\* The discarded steps, in ingest order.
discarded(ps, op_name) ==
    SelectSeq(ingest_order(ps, op_name), LAMBDA s : s # first_with(ps, op_name, s.name))

\* <<m, n>>: the retained steps declare that m comes before n.
declared_edges(ps, op_name) ==
    UNION {{<<d, s.name>> : d \in Range(s.dependencies)}
           \cup {<<s.name, r>> : r \in Range(s.reverse_dependencies)} :
           s \in Range(retained(ps, op_name))}

RECURSIVE closure(_, _)
closure(E, n) ==
    IF n = 0 THEN E
    ELSE closure(E \cup {<<p[1][1], p[2][2]>> : p \in {q \in E \X E : q[1][2] = q[2][1]}}, n - 1)

\* The declared edges contain a cycle.
has_cycle(ps, op_name) ==
    \E n \in Names : <<n, n>> \in closure(declared_edges(ps, op_name), Cardinality(Names))

Max(S) == CHOOSE x \in S : \A y \in S : y <= x

RECURSIVE level(_, _)
\* The Kahn level of a node of an acyclic edge set: 0 without predecessors, else one
\* more than the highest level of a predecessor.
level(E, n) ==
    LET preds == {e[1] : e \in {f \in E : f[2] = n}}
    IN IF preds = {} THEN 0 ELSE 1 + Max({level(E, m) : m \in preds})

\* The names in the order the ingest first mentions them: each retained step's
\* name, then its dependencies, then its reverse dependencies.
mention_order(ps, op_name) ==
    LET r == retained(ps, op_name)
    IN Concat([i \in 1..Len(r) |->
                  <<r[i].name>> \o r[i].dependencies \o r[i].reverse_dependencies])

payloads(sq) == [i \in 1..Len(sq) |-> sq[i].step]

\* Every declared edge between two steps of sq is respected by their positions.
respects_edges(sq) ==
    \A i, j \in 1..Len(sq) :
        /\ sq[j].name \in Range(sq[i].dependencies) => j < i
        /\ sq[j].name \in Range(sq[i].reverse_dependencies) => i < j

\* The operation of the last get_operation_sequence call under the current plugins.
last_op ==
    IF raised # NoException THEN raised.op_name
    ELSE IF gen # NoGenerator THEN gen.op_name ELSE "none"

\* C1: for a plugin set whose declared edges have no cycle get_operation_sequence
\* does not raise, and in the sequence it returns every pair of emitted steps S, T
\* with T.name in S.dependencies has T before S, and every pair with T.name in
\* S.reverse_dependencies has S before T.
C1_DependencyRespect ==
    \A op \in Ops :
        /\ ~has_cycle(plugins, op) => seqLog[op].kind # "cycle"
        /\ seqLog[op].kind = "seq" => respects_edges(seqLog[op].steps)

\* Scenario A: P1's step, P2's step after it, P3's step before it, emitted [P3, P1, P2].
C1_Witness ==
    /\ hint = NoHint
    /\ seqLog["init"].kind = "seq"
    /\ LET sq == seqLog["init"].steps
       IN /\ Len(sq) = 3
          /\ ingest_order(plugins, "init") = <<sq[2], sq[3], sq[1]>>
          /\ sq[2].dependencies = <<>> /\ sq[2].reverse_dependencies = <<>>
          /\ sq[3].dependencies = <<sq[2].name>> /\ sq[3].reverse_dependencies = <<>>
          /\ sq[1].dependencies = <<>> /\ sq[1].reverse_dependencies = <<sq[2].name>>

\* rep is a cycle of the declared edges, every node once; a name that a step
\* carries is reported as that (retained) step, any other as the bare name.
is_cycle_report(rep, ps, op_name) ==
    LET n == Len(rep)
    IN /\ n >= 1
       /\ \A i, j \in 1..n : i # j => rep[i].name # rep[j].name
       /\ \A i \in 1..n : <<rep[i].name, rep[(i % n) + 1].name>> \in declared_edges(ps, op_name)
       /\ \A i \in 1..n :
            IF rep[i].name \in carried(ps, op_name)
            THEN rep[i].is_step /\ rep[i].step = first_with(ps, op_name, rep[i].name)
            ELSE ~rep[i].is_step

\* C2: when the steps for an operation contain a dependency cycle, the call of
\* get_operation_sequence itself raises DependencyCycleException: no generator is
\* returned and nothing is yielded; the exception carries the operation name and its
\* steps are the nodes of one cycle of the declared edges, each exactly once.
C2_CycleRaisesAtCall ==
    /\ raised # NoException => gen = NoGenerator /\ yielded = <<>>
    /\ \A op \in Ops :
        /\ has_cycle(plugins, op) =>
              /\ seqLog[op].kind # "seq"
              /\ ~(gen # NoGenerator /\ gen.op_name = op)
        /\ seqLog[op].kind = "cycle" =>
              /\ seqLog[op].exc.kind = "DependencyCycleException"
              /\ seqLog[op].exc.op_name = op
              /\ is_cycle_report(seqLog[op].exc.steps, plugins, op)

\* Scenario B: two steps that depend on each other; the exception names both.
C2_Witness ==
    /\ raised # NoException
    /\ raised.op_name = "init"
    /\ Len(raised.steps) = 2
    /\ \A i \in 1..2 : raised.steps[i].is_step
    /\ raised.steps[1].step.dependencies = <<raised.steps[2].name>>
    /\ raised.steps[2].step.dependencies = <<raised.steps[1].name>>

\* The warnings the ingest owes: one for each discarded step, in ingest order.
expected_warnings(ps, op_name) ==
    LET d == discarded(ps, op_name)
    IN [i \in 1..Len(d) |->
          [name |-> d[i].name, op_name |-> op_name,
           kept |-> first_with(ps, op_name, d[i].name).plugin, ignored |-> d[i].plugin]]

\* C3: when several steps with one name are contributed for an operation, the
\* resolved sequence contains exactly one step with that name, the first one in
\* registration order; exactly one warning is logged for each discarded step; and
\* the call raises only if the retained steps contain a cycle.
C3_DuplicateKeepsFirst ==
    /\ last_op # "none" => logged = expected_warnings(plugins, last_op)
    /\ \A op \in Ops :
        /\ seqLog[op].kind = "seq" =>
              \A n \in carried(plugins, op) :
                  SelectSeq(seqLog[op].steps, LAMBDA s : s.name = n)
                      = <<first_with(plugins, op, n)>>
        /\ seqLog[op].kind = "cycle" => has_cycle(plugins, op)

\* Scenario C: two plugins contribute a step with the same name; one warning.
C3_Witness ==
    /\ hint = NoHint
    /\ seqLog["init"].kind = "seq"
    /\ last_op = "init"
    /\ Len(ingest_order(plugins, "init")) = 2
    /\ Len(seqLog["init"].steps) = 1
    /\ seqLog["init"].steps[1].plugin = PluginNames[1]
    /\ Len(logged) = 1
    /\ logged[1].kept = PluginNames[1] /\ logged[1].ignored = PluginNames[2]

\* The position of step s in the ingest order.
ingest_position(ps, op_name, s) == IndexOf(ingest_order(ps, op_name), s)

\* C4 as claimed: steps are emitted level by level, and within one level in the
\* order in which the steps were ingested.
C4_Original ==
    \A op \in Ops :
        seqLog[op].kind = "seq" =>
            LET sq == seqLog[op].steps
                E == declared_edges(plugins, op)
            IN \A i, j \in 1..Len(sq) :
                 i < j =>
                   /\ level(E, sq[i].name) <= level(E, sq[j].name)
                   /\ level(E, sq[i].name) = level(E, sq[j].name) =>
                        ingest_position(plugins, op, sq[i]) < ingest_position(plugins, op, sq[j])

\* C4, amended: steps are emitted level by level, and the steps of the first level
\* (those without predecessors) in the order in which the ingest first mentions
\* their names, as a step's name or in the dependencies or reverse dependencies of
\* a retained step ingested before.
C4_LevelsByFirstMention ==
    \A op \in Ops :
        seqLog[op].kind = "seq" =>
            LET sq == seqLog[op].steps
                E == declared_edges(plugins, op)
                m == mention_order(plugins, op)
            IN \A i, j \in 1..Len(sq) :
                 i < j =>
                   /\ level(E, sq[i].name) <= level(E, sq[j].name)
                   /\ (level(E, sq[i].name) = 0 /\ level(E, sq[j].name) = 0) =>
                        IndexOf(m, sq[i].name) < IndexOf(m, sq[j].name)

\* Two steps of the first level are emitted against their ingest order.
C4_Witness ==
    /\ seqLog["init"].kind = "seq"
    /\ LET sq == seqLog["init"].steps
           E == declared_edges(plugins, "init")
       IN \E i, j \in 1..Len(sq) :
            /\ i < j
            /\ level(E, sq[i].name) = 0 /\ level(E, sq[j].name) = 0
            /\ ingest_position(plugins, "init", sq[i]) > ingest_position(plugins, "init", sq[j])

\* C5 as claimed: adding to one step of an acyclic set a dependency on a name no
\* step carries does not raise and leaves the order of the steps as it was.
C5_Original ==
    (hint # NoHint /\ hint.before.kind = "seq" /\ seqLog["init"] # NoOutcome) =>
        /\ seqLog["init"].kind = "seq"
        /\ payloads(seqLog["init"].steps) = payloads(hint.before.steps)

\* C5, amended: adding to one step of an acyclic set a dependency on a name that no
\* step carries and no step mentions does not raise; the sequence holds the same
\* steps as before and respects every declared edge (the order of the steps may
\* change).
C5_DanglingKeepsSteps ==
    (hint # NoHint /\ hint.fresh /\ hint.before.kind = "seq" /\ seqLog["init"] # NoOutcome) =>
        /\ seqLog["init"].kind = "seq"
        /\ Len(seqLog["init"].steps) = Len(hint.before.steps)
        /\ Range(payloads(seqLog["init"].steps)) = Range(payloads(hint.before.steps))
        /\ respects_edges(seqLog["init"].steps)

\* The dependency on an unmentioned name has moved its step behind another one.
C5_Witness ==
    /\ hint # NoHint /\ hint.fresh /\ hint.before.kind = "seq"
    /\ seqLog["init"].kind = "seq"
    /\ Len(seqLog["init"].steps) >= 2
    /\ payloads(seqLog["init"].steps) # payloads(hint.before.steps)

dangling(ps, op_name) ==
    ({e[1] : e \in declared_edges(ps, op_name)} \cup {e[2] : e \in declared_edges(ps, op_name)})
       \ carried(ps, op_name)

\* C32: iterating the result of get_operation_sequence to the end yields each
\* retained step (the first step ingested for each name) exactly once and nothing
\* else; a name that appears only in dependencies or reverse dependencies gives no
\* element, and two steps connected through such names are emitted in the order the
\* connection demands.
C32_YieldsRetainedOnce ==
    /\ gen.state = "finished" =>
          /\ Len(yielded) = Len(retained(plugins, gen.op_name))
          /\ Range(yielded) = Range(retained(plugins, gen.op_name))
          /\ \A k \in 1..Len(yielded) : yielded[k].name \notin dangling(plugins, gen.op_name)
          /\ \A i, j \in 1..Len(yielded) :
                <<yielded[i].name, yielded[j].name>>
                    \in closure(declared_edges(plugins, gen.op_name), Cardinality(Names))
                  => i < j
    /\ \A op \in Ops :
          seqLog[op].kind = "seq" =>
             /\ Len(seqLog[op].steps) = Len(retained(plugins, op))
             /\ Range(seqLog[op].steps) = Range(retained(plugins, op))

\* P1's step s1 is ingested first and depends on a name no step carries; s2, ingested
\* after it, is declared to come before that name: two elements are yielded, s2 first.
C32_Witness ==
    /\ gen.state = "finished" /\ gen.op_name = "init"
    /\ hint = NoHint
    /\ Len(ingest_order(plugins, "init")) = 2
    /\ dangling(plugins, "init") # {}
    /\ \E x \in dangling(plugins, "init") :
          /\ ingest_order(plugins, "init")[1].dependencies = <<x>>
          /\ ingest_order(plugins, "init")[2].reverse_dependencies = <<x>>
    /\ yielded = <<ingest_order(plugins, "init")[2], ingest_order(plugins, "init")[1]>>

\* The plugins as they would be had the discarded steps not been supplied.
without_discarded(ps, op_name) ==
    [i \in 1..Len(ps) |->
        [ps[i] EXCEPT !.steps[op_name] =
            SelectSeq(@, LAMBDA s : s = first_with(ps, op_name, s.name))]]

\* C36: a step discarded as a duplicate contributes no ordering constraints: the
\* outcome of get_operation_sequence, the order or the cycle error, is the one the
\* call has when the discarded steps are not supplied at all, whatever their
\* dependencies and reverse dependencies.
C36_DiscardedAddsNoEdges ==
    \A op \in Ops :
        LET r == get_operation_sequence_call(without_discarded(plugins, op), op)
        IN /\ seqLog[op].kind = "seq" =>
                 /\ r.raised = NoException
                 /\ seqLog[op].steps = iterate_loop(r.gen.ts, r.gen.steps)
           /\ seqLog[op].kind = "cycle" => seqLog[op].exc = r.raised

\* P1 contributes a step and a second one that depends on it; P2 contributes a step
\* with the first one's name that depends on the second. The sequence is resolved:
\* P1's two steps in their order, where the discarded step's edge would close a cycle.
C36_Witness ==
    /\ hint = NoHint
    /\ seqLog["init"].kind = "seq"
    /\ Len(seqLog["init"].steps) = 2
    /\ LET o == ingest_order(plugins, "init")
       IN /\ Len(o) = 3
          /\ o[3].name = o[1].name /\ o[3].plugin # o[1].plugin
          /\ o[1].dependencies = <<>> /\ o[1].reverse_dependencies = <<>>
          /\ o[2].dependencies = <<o[1].name>>
          /\ o[3].dependencies = <<o[2].name>>
          /\ seqLog["init"].steps = <<o[1], o[2]>>

(***************************************************************************)
(* The operation cache.  op_cache is the defaultdict: an operation is in   *)
(* its domain once its scope (a dict) exists, even if the scope is empty.  *)
(***************************************************************************)
NoCall == [kind |-> "none"]
NoDrop == [kind |-> "none"]
NotGiven == [given |-> FALSE]
Given(x) == [given |-> TRUE, value |-> x]

\* What the caller's compute does when invoked: returns a value, or raises.
Computes == {[raises |-> FALSE, value |-> v] : v \in Values} \cup {[raises |-> TRUE]}

\* An entry for (op_name, key) is stored in the cache.
live(cache, op_name, key) == op_name \in DOMAIN cache /\ key \in DOMAIN cache[op_name]

\* self._op_cache[op_name] of a defaultdict(dict): a missing scope is created.
scope_of(cache, op_name) ==
    IF op_name \in DOMAIN cache THEN cache ELSE (op_name :> <<>>) @@ cache

\* Mutant of operation_cache_call: the lookup is skipped, compute always runs.
operation_cache_always_computes(cache, op_name, key, compute) ==
    LET c1 == scope_of(cache, op_name)
    IN IF compute.raises
       THEN [cache |-> c1, computed |-> TRUE, raised |-> TRUE, stored |-> FALSE]
       ELSE [cache |-> [c1 EXCEPT ![op_name] = (key :> compute.value) @@ @],
             computed |-> TRUE, raised |-> FALSE, stored |-> TRUE, ret |-> compute.value]

\* Mutant of operation_cache_call: the scope is assigned before compute's outcome
\* is known, so a raising compute leaves an entry behind.
operation_cache_stores_on_raise(cache, op_name, key, compute) ==
    LET c1 == scope_of(cache, op_name)
    IN IF key \in DOMAIN c1[op_name]
       THEN [cache |-> c1, computed |-> FALSE, raised |-> FALSE, stored |-> FALSE,
             ret |-> c1[op_name][key]]
       ELSE IF compute.raises
       THEN [cache |-> [c1 EXCEPT ![op_name] = (key :> 42) @@ @],
             computed |-> TRUE, raised |-> TRUE, stored |-> TRUE]
       ELSE [cache |-> [c1 EXCEPT ![op_name] = (key :> compute.value) @@ @],
             computed |-> TRUE, raised |-> FALSE, stored |-> TRUE, ret |-> compute.value]

\* operation_cache(op_name, key, compute): the stored value, or compute's result,
\* which is stored; an exception of compute propagates and nothing is stored.
operation_cache_call(cache, op_name, key, compute) ==
    LET c1 == scope_of(cache, op_name)
    IN IF key \in DOMAIN c1[op_name]
       THEN [cache |-> c1, computed |-> FALSE, raised |-> FALSE, stored |-> FALSE,
             ret |-> c1[op_name][key]]
       ELSE IF compute.raises
       THEN [cache |-> c1, computed |-> TRUE, raised |-> TRUE, stored |-> FALSE]
       ELSE [cache |-> [c1 EXCEPT ![op_name] = (key :> compute.value) @@ @],
             computed |-> TRUE, raised |-> FALSE, stored |-> TRUE, ret |-> compute.value]

\* A dict without one of its keys.
without(f, k) == [x \in DOMAIN f \ {k} |-> f[x]]

RECURSIVE drop_keys(_, _)
\* for key in keys: del operation_scope[key] -- a missing key raises KeyError.
drop_keys(scope, keys) ==
    IF keys = <<>> THEN [scope |-> scope, raised |-> FALSE]
    ELSE IF Head(keys) \notin DOMAIN scope THEN [scope |-> scope, raised |-> TRUE]
    ELSE drop_keys(without(scope, Head(keys)), Tail(keys))

\* Mutant of drop_operation: the whole cache is emptied.
drop_operation_everything(cache, operation, keys) == [cache |-> <<>>, raised |-> FALSE]

\* drop_operation(operation), the local function of drop_operation_cache.
drop_operation(cache, operation, keys) ==
    IF keys.given
    THEN IF operation \notin DOMAIN cache THEN [cache |-> cache, raised |-> FALSE]
         ELSE LET r == drop_keys(cache[operation], keys.value)
              IN [cache |-> [cache EXCEPT ![operation] = r.scope], raised |-> r.raised]
    ELSE [cache |-> without(cache, operation), raised |-> FALSE]

RECURSIVE drop_operations(_, _, _)
\* for op in operations: drop_operation(op) -- an exception ends the loop.
drop_operations(cache, operations, keys) ==
    IF operations = <<>> THEN [cache |-> cache, raised |-> FALSE]
    ELSE LET r == drop_operation(cache, Head(operations), keys)
         IN IF r.raised THEN r ELSE drop_operations(r.cache, Tail(operations), keys)

\* Mutant of drop_operation_cache_call: a plugin's operations are not dropped.
drop_operation_cache_ignores_plugin(cache, operations, keys, plugin) ==
    IF operations.given THEN drop_operations(cache, operations.value, keys)
    ELSE IF plugin.given THEN [cache |-> cache, raised |-> FALSE]
    ELSE [cache |-> <<>>, raised |-> FALSE]

\* Mutant of drop_operation_cache_call: without arguments nothing is dropped.
drop_operation_cache_keeps_all(cache, operations, keys, plugin) ==
    IF operations.given THEN drop_operations(cache, operations.value, keys)
    ELSE IF plugin.given /\ plugin.value.listable
         THEN drop_operations(cache, plugin.value.operations, keys)
         ELSE IF plugin.given THEN [cache |-> <<>>, raised |-> FALSE]
         ELSE [cache |-> cache, raised |-> FALSE]

\* Mutant of drop_operation_cache_call: a plugin that cannot list its operations
\* makes the drop return without touching the cache.
drop_operation_cache_unlistable_noop(cache, operations, keys, plugin) ==
    IF operations.given THEN drop_operations(cache, operations.value, keys)
    ELSE IF plugin.given
         THEN IF plugin.value.listable
              THEN drop_operations(cache, plugin.value.operations, keys)
              ELSE [cache |-> cache, raised |-> FALSE]
         ELSE [cache |-> <<>>, raised |-> FALSE]

\* Mutant of drop_operation_cache_call: the plugin argument is looked at first.
drop_operation_cache_plugin_first(cache, operations, keys, plugin) ==
    IF plugin.given /\ plugin.value.listable
    THEN drop_operations(cache, plugin.value.operations, keys)
    ELSE IF operations.given THEN drop_operations(cache, operations.value, keys)
    ELSE [cache |-> <<>>, raised |-> FALSE]

\* drop_operation_cache(operations=, keys=, plugin=): the operations argument is
\* looked at first, then the plugin; a plugin that cannot list its operations, or
\* neither argument, makes the cache a new empty defaultdict.
drop_operation_cache_call(cache, operations, keys, plugin) ==
    IF operations.given THEN drop_operations(cache, operations.value, keys)
    ELSE IF plugin.given /\ plugin.value.listable
         THEN drop_operations(cache, plugin.value.operations, keys)
         ELSE [cache |-> <<>>, raised |-> FALSE]

\* Plugin.list_implemented_operations(): the list, or UnlistableOperationSetException.
PluginListings ==
    {[listable |-> FALSE]} \cup
    {[listable |-> TRUE, operations |-> l] : l \in SeqUpTo(Ops, MaxArgLen)}

Optional(S) == {NotGiven} \cup {Given(x) : x \in S}

\* The store counts after a drop: an entry that is gone has no stored value.
stores_after(cache, st) ==
    [op \in Ops |-> [k \in Keys |-> IF live(cache, op, k) THEN st[op][k] ELSE 0]]

InitCache ==
    /\ plugins = plugin_set(<<>>, 0)
    /\ ResolverIdle
    /\ CacheIdle
    /\ ConcIdle
    /\ OutsideIdle

\* pm.operation_cache(op_name, key, compute)
operation_cache(op_name, key, compute) ==
    LET r == operation_cache_call(op_cache, op_name, key, compute)
    IN /\ op_cache' = r.cache
       /\ stores' = IF r.stored THEN [stores EXCEPT ![op_name][key] = @ + 1] ELSE stores
       /\ lastCall' = [kind |-> "call", op_name |-> op_name, key |-> key, compute |-> compute,
                       before |-> op_cache, computed |-> r.computed, raised |-> r.raised,
                       ret |-> IF r.raised THEN NotGiven ELSE Given(r.ret)]
       /\ lastDrop' = NoDrop
       /\ UNCHANGED <<outsideVars, resolverVars, concVars>>

\* pm.drop_operation_cache(operations=..., keys=..., plugin=...)
drop_operation_cache(operations, keys, plugin) ==
    LET r == drop_operation_cache_call(op_cache, operations, keys, plugin)
    IN /\ op_cache' = r.cache
       /\ stores' = stores_after(r.cache, stores)
       /\ lastDrop' = [kind |-> "drop", operations |-> operations, keys |-> keys,
                       plugin |-> plugin, before |-> op_cache, raised |-> r.raised]
       /\ lastCall' = NoCall
       /\ UNCHANGED <<outsideVars, resolverVars, concVars>>

\* The argument triples <<operations, keys, plugin>> that drop_operation_cache is called with:
\* operations alone, a plugin alone, neither, and both together.
DropCalls ==
    LET OpLists == SeqUpTo(Ops, MaxArgLen)
        KeyLists == Optional(SeqUpTo(Keys, MaxArgLen))
    IN  {<<Given(os), ks, NotGiven>> : os \in OpLists, ks \in KeyLists}
        \cup {<<NotGiven, ks, Given(p)>> : ks \in KeyLists, p \in PluginListings}
        \cup {<<NotGiven, ks, NotGiven>> : ks \in KeyLists}
        \cup {<<Given(os), ks, Given(p)>> :
                os \in SeqUpTo(Ops, 1), ks \in Optional(SeqUpTo(Keys, 1)),
                p \in {q \in PluginListings : q.listable => Len(q.operations) = 1}}

NextCache ==
    \/ \E op \in Ops, k \in Keys, c \in Computes : operation_cache(op, k, c)
    \/ \E d \in DropCalls : drop_operation_cache(d[1], d[2], d[3])

SpecCache == InitCache /\ [][NextCache]_vars

(***************************************************************************)
(* The cache used by threads (MagicOperation.ainvoke runs the synchronous  *)
(* call in asyncio.to_thread).  operation_cache takes no lock, so a thread *)
(* can be preempted between its statements: fetching the scope (line 65),  *)
(* the lookup (67-70), compute (72) and the store (73-75) are the steps.   *)
(* A thread holds a reference to the scope dict; when a drop removes that  *)
(* dict from the cache the thread keeps the removed dict (an orphan).      *)
(***************************************************************************)
IdleThread == [pc |-> "idle"]
Attached == 0
InCall == {"lookup", "compute", "store"}

\* The value that the compute passed by thread t returns.
computed_by(t) == IF t = "t1" THEN 42 ELSE 43

\* The dict a thread's operation_scope refers to.
scope_dict(th) ==
    IF th.scope = Attached THEN op_cache[th.op_name] ELSE orphans[th.scope]

\* Orphans that no thread refers to any more are garbage.
collect(ths, orph) ==
    [i \in {j \in DOMAIN orph : \E t \in Threads : ths[t].pc \in InCall /\ ths[t].scope = j}
        |-> orph[i]]

InitCacheConc ==
    /\ plugins = plugin_set(<<>>, 0)
    /\ ResolverIdle
    /\ CacheIdle
    /\ threads = [t \in Threads |-> IdleThread]
    /\ orphans = <<>>
    /\ OutsideIdle

\* line 65: operation_scope = self._op_cache[op_name]
call_enter(t, op_name, key) ==
    /\ threads[t].pc \in {"idle", "returned"}
    /\ LET racing == {u \in Threads \ {t} : /\ threads[u].pc \in InCall
                                            /\ threads[u].op_name = op_name
                                            /\ threads[u].key = key}
       IN threads' = [u \in Threads |->
                        IF u = t THEN [pc |-> "lookup", op_name |-> op_name, key |-> key,
                                       scope |-> Attached, raced |-> racing # {}]
                        ELSE IF u \in racing THEN [threads[u] EXCEPT !.raced = TRUE]
                        ELSE threads[u]]
    /\ op_cache' = scope_of(op_cache, op_name)
    /\ UNCHANGED <<outsideVars, resolverVars, stores, lastCall, lastDrop, orphans>>

\* lines 67-70: return operation_scope[key], or go on when it raises KeyError
call_lookup(t) ==
    /\ threads[t].pc = "lookup"
    /\ LET th == threads[t]
           d == scope_dict(th)
           ths == [threads EXCEPT ![t] =
                      IF th.key \in DOMAIN d
                      THEN [pc |-> "returned", op_name |-> th.op_name, key |-> th.key,
                            raced |-> th.raced, computed |-> FALSE, ret |-> d[th.key]]
                      ELSE [th EXCEPT !.pc = "compute"]]
       IN /\ threads' = ths
          /\ orphans' = collect(ths, orphans)
    /\ UNCHANGED <<outsideVars, resolverVars, cacheVars>>

\* line 72: res = compute(*args, **kwargs)
call_compute(t) ==
    /\ threads[t].pc = "compute"
    /\ threads' = [threads EXCEPT ![t] =
                      [pc |-> "store", op_name |-> @.op_name, key |-> @.key,
                       scope |-> @.scope, raced |-> @.raced, res |-> computed_by(t)]]
    /\ UNCHANGED <<outsideVars, resolverVars, cacheVars, orphans>>

\* lines 73-75: operation_scope[key] = res; return res
call_store(t) ==
    /\ threads[t].pc = "store"
    /\ LET th == threads[t]
           ths == [threads EXCEPT ![t] =
                      [pc |-> "returned", op_name |-> th.op_name, key |-> th.key,
                       raced |-> th.raced, computed |-> TRUE, ret |-> th.res]]
       IN /\ threads' = ths
          /\ IF th.scope = Attached
             THEN /\ op_cache' = [op_cache EXCEPT ![th.op_name] = (th.key :> th.res) @@ @]
                  /\ stores' = [stores EXCEPT ![th.op_name][th.key] = @ + 1]
                  /\ orphans' = orphans
             ELSE /\ orphans' = collect(ths, [orphans EXCEPT ![th.scope] = (th.key :> th.res) @@ @])
                  /\ UNCHANGED <<op_cache, stores>>
    /\ UNCHANGED <<outsideVars, resolverVars, lastCall, lastDrop>>

\* The drops made while threads are inside operation_cache.
DropCallsConc ==
    {<<NotGiven, NotGiven, NotGiven>>}
    \cup {<<Given(<<op>>), NotGiven, NotGiven>> : op \in Ops}
    \cup {<<Given(<<op>>), Given(<<k>>), NotGiven>> : op \in Ops, k \in Keys}

\* The operations whose scope dict a drop took out of the cache.
removed_scopes(operations, keys, plugin) ==
    IF keys.given /\ (operations.given \/ (plugin.given /\ plugin.value.listable)) THEN {}
    ELSE DOMAIN op_cache \ DOMAIN drop_operation_cache_call(op_cache, operations, keys, plugin).cache

\* The smallest orphan identifiers not in use, one for each removed scope that is held.
RECURSIVE orphan_ids(_, _, _)
orphan_ids(ops, used, acc) ==
    IF ops = {} THEN acc
    ELSE LET op == CHOOSE o \in ops : \A o2 \in ops : IndexOf(OpOrder, o) <= IndexOf(OpOrder, o2)
             id == CHOOSE i \in 1..(Cardinality(used) + 1) : i \notin used /\ \A j \in 1..(i - 1) : j \in used
         IN orphan_ids(ops \ {op}, used \cup {id}, (op :> id) @@ acc)

\* pm.drop_operation_cache(...) by some thread, between the steps of the others
concurrent_drop(operations, keys, plugin) ==
    LET r == drop_operation_cache_call(op_cache, operations, keys, plugin)
        held == {op \in removed_scopes(operations, keys, plugin) :
                    \E t \in Threads : /\ threads[t].pc \in InCall
                                       /\ threads[t].scope = Attached
                                       /\ threads[t].op_name = op}
        ids == orphan_ids(held, DOMAIN orphans, <<>>)
    IN /\ ~r.raised
       /\ op_cache' = r.cache
       /\ stores' = stores_after(r.cache, stores)
       /\ orphans' = [i \in DOMAIN orphans \cup {ids[op] : op \in held} |->
                        IF i \in DOMAIN orphans THEN orphans[i]
                        ELSE op_cache[CHOOSE op \in held : ids[op] = i]]
       /\ threads' = [t \in Threads |->
                        IF threads[t].pc \in InCall
                        THEN IF threads[t].scope = Attached /\ threads[t].op_name \in held
                             THEN [threads[t] EXCEPT !.scope = ids[threads[t].op_name], !.raced = FALSE]
                             ELSE [threads[t] EXCEPT !.raced = FALSE]
                        ELSE IF threads[t].pc = "returned"
                        THEN [threads[t] EXCEPT !.raced = FALSE]
                        ELSE threads[t]]
       /\ UNCHANGED <<outsideVars, resolverVars, lastCall, lastDrop>>

NextCacheConc ==
    \/ \E t \in Threads, op \in Ops, k \in Keys : call_enter(t, op, k)
    \/ \E t \in Threads : call_lookup(t)
    \/ \E t \in Threads : call_compute(t)
    \/ \E t \in Threads : call_store(t)
    \/ \E d \in DropCallsConc : concurrent_drop(d[1], d[2], d[3])

SpecCacheConc == InitCacheConc /\ [][NextCacheConc]_vars

(***************************************************************************)
(* The operation cache: claims.                                            *)
(***************************************************************************)
\* The entries (key -> value) stored under an operation; none when it has no scope.
entries(cache, op) == IF op \in DOMAIN cache THEN cache[op] ELSE <<>>

\* C7: over any sequence of operation_cache and drop_operation_cache calls made one
\* after another, a call invokes compute if and only if no entry for (op, key) is
\* live; a live entry holds exactly one computed value stored since the entry was
\* last absent; a call that finds the entry returns the stored value whatever its
\* compute would do, and stores nothing; a call that misses returns and stores what
\* compute returns; the entries of every other key and operation stay as they were.
C7_ComputeOncePerLiveEntry ==
    /\ \A op \in Ops, k \in Keys : stores[op][k] = IF live(op_cache, op, k) THEN 1 ELSE 0
    /\ lastCall.kind = "call" =>
         LET op == lastCall.op_name
             key == lastCall.key
             was == live(lastCall.before, op, key)
         IN /\ lastCall.computed <=> ~was
            /\ was => /\ ~lastCall.raised
                      /\ lastCall.ret = Given(lastCall.before[op][key])
                      /\ op_cache[op][key] = lastCall.before[op][key]
            /\ (~was /\ ~lastCall.compute.raises) =>
                      /\ lastCall.ret = Given(lastCall.compute.value)
                      /\ live(op_cache, op, key)
                      /\ op_cache[op][key] = lastCall.compute.value
            /\ \A o2 \in Ops, k2 \in Keys :
                 <<o2, k2>> # <<op, key>> =>
                    /\ live(op_cache, o2, k2) <=> live(lastCall.before, o2, k2)
                    /\ live(op_cache, o2, k2) => op_cache[o2][k2] = lastCall.before[o2][k2]

\* A call whose compute would return 43 is served the stored 42, with another key of the
\* same operation and an entry of the other operation cached beside it.
C7_Witness ==
    /\ lastCall.kind = "call"
    /\ lastCall.op_name = "init" /\ lastCall.key = "k1"
    /\ lastCall.compute = [raises |-> FALSE, value |-> 43]
    /\ ~lastCall.computed
    /\ lastCall.ret = Given(42)
    /\ live(op_cache, "init", "k2") /\ op_cache["init"]["k2"] = 43
    /\ live(op_cache, "run", "k1")

\* C8: when two threads call operation_cache with the same (op, key) concurrently while
\* no entry for it is live, the live entry is computed and stored at most once, and
\* both callers obtain the same value.
C8_ComputeOnceUnderThreads ==
    /\ \A op \in Ops, k \in Keys : stores[op][k] <= 1
    /\ \A t \in Threads, u \in Threads :
         (/\ t # u
          /\ threads[t].pc = "returned" /\ threads[u].pc = "returned"
          /\ threads[t].op_name = threads[u].op_name /\ threads[t].key = threads[u].key
          /\ threads[t].raced /\ threads[u].raced)
         => /\ threads[t].ret = threads[u].ret
            /\ ~(threads[t].computed /\ threads[u].computed)

\* A drop with operations=[o], no keys and no plugin.
drops_operation(d, o) ==
    /\ d.kind = "drop"
    /\ d.operations = Given(<<o>>)
    /\ ~d.keys.given
    /\ ~d.plugin.given

\* C9: drop_operation_cache(operations=[o]) removes every entry under o and leaves the
\* entries under every other operation unchanged, and an operation_cache call that
\* follows it for an entry of another operation returns the stored value without
\* invoking compute.
C9_DropOperationFrame ==
    /\ [](\A o \in Ops :
            drops_operation(lastDrop, o) =>
               /\ ~lastDrop.raised
               /\ entries(op_cache, o) = <<>>
               /\ \A o2 \in Ops \ {o} : entries(op_cache, o2) = entries(lastDrop.before, o2))
    /\ [][\A o \in Ops :
            (/\ drops_operation(lastDrop, o)
             /\ lastCall'.kind = "call"
             /\ lastCall'.op_name # o
             /\ live(lastDrop.before, lastCall'.op_name, lastCall'.key))
            => /\ ~lastCall'.computed
               /\ lastCall'.ret = Given(lastDrop.before[lastCall'.op_name][lastCall'.key])]_vars

\* drop(operations=["init"]) with two entries under "init" and two under "run".
C9_Witness ==
    /\ drops_operation(lastDrop, "init")
    /\ DOMAIN entries(lastDrop.before, "init") = Keys
    /\ DOMAIN entries(lastDrop.before, "run") = Keys
    /\ entries(op_cache, "init") = <<>>
    /\ entries(op_cache, "run") = entries(lastDrop.before, "run")

\* A drop with plugin=p alone, p listing its operations.
drops_plugin(d) ==
    /\ d.kind = "drop"
    /\ ~d.operations.given
    /\ ~d.keys.given
    /\ d.plugin.given
    /\ d.plugin.value.listable

\* C10: drop_operation_cache(plugin=p), p listing the operations L, removes all entries
\* under the operations in L and leaves the entries under operations outside L
\* unchanged, and an operation_cache call that follows it for an operation in L invokes
\* compute again and returns what it returns.
C10_DropPluginFrame ==
    /\ [](drops_plugin(lastDrop) =>
            LET L == Range(lastDrop.plugin.value.operations)
            IN /\ ~lastDrop.raised
               /\ \A o \in L : entries(op_cache, o) = <<>>
               /\ \A o \in Ops \ L : entries(op_cache, o) = entries(lastDrop.before, o))
    /\ [][(/\ drops_plugin(lastDrop)
           /\ lastCall'.kind = "call"
           /\ lastCall'.op_name \in Range(lastDrop.plugin.value.operations))
          => /\ lastCall'.computed
             /\ ~lastCall'.compute.raises => lastCall'.ret = Given(lastCall'.compute.value)]_vars

\* Scenario F at the drop: plugin Q lists "run", whose entry k1 held 42, and "init" keeps
\* its entry.
C10_Witness ==
    /\ drops_plugin(lastDrop)
    /\ lastDrop.plugin.value.operations = <<"run">>
    /\ live(lastDrop.before, "run", "k1") /\ lastDrop.before["run"]["k1"] = 42
    /\ live(lastDrop.before, "init", "k1")
    /\ entries(op_cache, "run") = <<>>
    /\ entries(op_cache, "init") = entries(lastDrop.before, "init")

\* A drop without any argument.
drops_all(d) ==
    /\ d.kind = "drop"
    /\ ~d.operations.given
    /\ ~d.keys.given
    /\ ~d.plugin.given

\* C11: drop_operation_cache() without arguments leaves no entry in the cache, and an
\* operation_cache call that follows it for an entry that was cached invokes compute
\* again and returns the new value.
C11_DropAll ==
    /\ [](drops_all(lastDrop) => ~lastDrop.raised /\ op_cache = <<>>)
    /\ [][(/\ drops_all(lastDrop)
           /\ lastCall'.kind = "call"
           /\ live(lastDrop.before, lastCall'.op_name, lastCall'.key))
          => /\ lastCall'.computed
             /\ ~lastCall'.compute.raises =>
                   /\ lastCall'.ret = Given(lastCall'.compute.value)
                   /\ op_cache'[lastCall'.op_name][lastCall'.key] = lastCall'.compute.value]_vars

\* drop() on a cache that holds entries under both operations.
C11_Witness ==
    /\ drops_all(lastDrop)
    /\ live(lastDrop.before, "init", "k1") /\ lastDrop.before["init"]["k1"] = 42
    /\ live(lastDrop.before, "run", "k2")
    /\ op_cache = <<>>

\* A drop with plugin=p alone, p raising UnlistableOperationSetException.
drops_unlistable(d) ==
    /\ d.kind = "drop"
    /\ ~d.operations.given
    /\ ~d.keys.given
    /\ d.plugin.given
    /\ ~d.plugin.value.listable

\* C12, as the specification states it: drop_operation_cache(plugin=p) for a plugin
\* that cannot list its operations removes no entry and raises nothing.
C12_Original ==
    drops_unlistable(lastDrop) => ~lastDrop.raised /\ op_cache = lastDrop.before

\* C12, as the code behaves: drop_operation_cache(plugin=p) for a plugin that cannot
\* list its operations raises nothing and empties the whole cache, as a drop without
\* arguments does.
C12_UnlistableFlushesAll ==
    drops_unlistable(lastDrop) => ~lastDrop.raised /\ op_cache = <<>>

\* Entries under both operations are gone after the drop for an unlistable plugin.
C12_Witness ==
    /\ drops_unlistable(lastDrop)
    /\ live(lastDrop.before, "init", "k1")
    /\ live(lastDrop.before, "run", "k1")
    /\ op_cache = <<>>

\* C13: drop_operation_cache(operations=O, keys=K) raises nothing and removes exactly
\* the entries (o, k) with o in O and k in K; every other entry stays live with its
\* value.
C13_DropKeysExact ==
    (/\ lastDrop.kind = "drop"
     /\ lastDrop.operations.given
     /\ lastDrop.keys.given
     /\ ~lastDrop.plugin.given)
    => /\ ~lastDrop.raised
       /\ \A o \in Ops, k \in Keys :
            /\ live(op_cache, o, k) <=>
                  /\ live(lastDrop.before, o, k)
                  /\ ~(o \in Range(lastDrop.operations.value) /\ k \in Range(lastDrop.keys.value))
            /\ live(op_cache, o, k) => op_cache[o][k] = lastDrop.before[o][k]

\* A drop with both operations=O and plugin=p, p listing its operations, no keys.
drops_both(d) ==
    /\ d.kind = "drop"
    /\ d.operations.given
    /\ ~d.keys.given
    /\ d.plugin.given
    /\ d.plugin.value.listable

\* C14, as the specification states it: with a plugin and operations together the
\* operations dropped are those the plugin lists, the others stay.
C14_Original ==
    drops_both(lastDrop) =>
       LET L == Range(lastDrop.plugin.value.operations)
       IN /\ \A o \in L : entries(op_cache, o) = <<>>
          /\ \A o \in Ops \ L : entries(op_cache, o) = entries(lastDrop.before, o)

\* C14, as the code behaves: with a plugin and operations together the operations
\* argument decides; the entries under the operations in it are removed, and the
\* entries under every other operation stay, those the plugin lists included.
C14_OperationsTakePrecedence ==
    drops_both(lastDrop) =>
       LET O == Range(lastDrop.operations.value)
       IN /\ ~lastDrop.raised
          /\ \A o \in O : entries(op_cache, o) = <<>>
          /\ \A o \in Ops \ O : entries(op_cache, o) = entries(lastDrop.before, o)

\* operations=["init"] with a plugin listing "run": "init" is dropped, "run" stays.
C14_Witness ==
    /\ drops_both(lastDrop)
    /\ lastDrop.operations.value = <<"init">>
    /\ lastDrop.plugin.value.operations = <<"run">>
    /\ live(lastDrop.before, "init", "k1")
    /\ live(lastDrop.before, "run", "k1")
    /\ entries(op_cache, "init") = <<>>
    /\ entries(op_cache, "run") = entries(lastDrop.before, "run")

(***************************************************************************)
(* The ambient manager.  PluginManager._current is a ContextVar: its value *)
(* lives in a context, every task runs in a context of its own, and        *)
(* asyncio.create_task / asyncio.gather / asyncio.to_thread start the      *)
(* child in a copy of the context of the task that spawns it.              *)
(***************************************************************************)
Managers == {"pm1", "pm2"}
TaskNames == {"main", "child1", "child2"}
MISSING == "MISSING"
NotObserved == [kind |-> "none"]
NoExit == [kind |-> "none"]
Unborn == [state |-> "unborn"]
Finished == [state |-> "done"]

\* ContextVar.get(): the value, or LookupError when the variable has none.
ContextVar_get(ctx) ==
    IF ctx = MISSING THEN [ok |-> FALSE, exception |-> "LookupError"]
    ELSE [ok |-> TRUE, value |-> ctx]

\* ContextVar.set(value): the new content and the token that remembers the old one.
ContextVar_set(ctx, value) == [ctx |-> value, token |-> [old_value |-> ctx]]

\* Mutant of ContextVar_reset: the variable is cleared instead of restored.
ContextVar_reset_clears(ctx, token) == MISSING

\* ContextVar.reset(token): the variable gets the value it had before the set.
ContextVar_reset(ctx, token) == token.old_value

\* PluginManager.current_maybe()
current_maybe(ctx) ==
    LET r == ContextVar_get(ctx)
    IN IF r.ok THEN r.value ELSE "None"

\* Mutant of current: LookupError is answered with None.
current_returns_none(ctx) ==
    LET r == ContextVar_get(ctx)
    IN IF r.ok THEN [ok |-> TRUE, value |-> r.value] ELSE [ok |-> TRUE, value |-> "None"]

\* PluginManager.current()
current(ctx) ==
    LET r == ContextVar_get(ctx)
    IN IF r.ok THEN [ok |-> TRUE, value |-> r.value]
       ELSE [ok |-> FALSE, exception |-> "CurrentPluginManagerNotSetException"]

\* Mutant of copy_context: the child runs in the context of its parent.
shared_context(parent, child) == [id |-> tasks[parent].ctx, content |-> contexts[tasks[parent].ctx]]

\* Mutant of copy_context: the child starts in an empty context.
empty_context(parent, child) == [id |-> child, content |-> MISSING]

\* contextvars.copy_context(), as create_task and to_thread call it: a new context
\* with the content of the parent's.
copy_context(parent, child) == [id |-> child, content |-> contexts[tasks[parent].ctx]]

\* The content of the context a task runs in.
context_of(t) == contexts[tasks[t].ctx]

Running(t) == tasks[t].state = "running"

\* A task that awaits asyncio.to_thread(...) does not run until the thread is done.
awaiting_thread(t) ==
    \E c \in TaskNames : /\ Running(c)
                         /\ tasks[c].kind = "thread"
                         /\ tasks[c].parent = t

\* A task can take a step of its own code.
CanStep(t) == Running(t) /\ ~awaiting_thread(t)

\* An as_current scope is active in the context of a task: one of its own, or one
\* that was active where it was spawned.
scope_active(t) == tasks[t].scopes # <<>> \/ tasks[t].spawned_in_scope

InitAmbient ==
    /\ plugins = plugin_set(<<>>, 0)
    /\ ResolverIdle
    /\ CacheIdle
    /\ ConcIdle
    /\ contexts = [c \in {"main"} |-> MISSING]
    /\ tasks = [t \in TaskNames |->
                  IF t = "main"
                  THEN [state |-> "running", ctx |-> "main", scopes |-> <<>>, exc |-> FALSE,
                        kind |-> "main", parent |-> "main", spawned_in_scope |-> FALSE,
                        spawn_ambient |-> "None", lastExit |-> NoExit]
                  ELSE Unborn]
    /\ observed = NotObserved
    /\ ChainIdle
    /\ RunnersIdle
    /\ AppIdle

\* with pm.as_current(): -- token = PluginManager._current.set(self), then the body
as_current_enter(t, pm) ==
    /\ CanStep(t)
    /\ ~tasks[t].exc
    /\ Len(tasks[t].scopes) < MaxDepth
    /\ LET r == ContextVar_set(context_of(t), pm)
       IN /\ contexts' = [contexts EXCEPT ![tasks[t].ctx] = r.ctx]
          /\ tasks' = [tasks EXCEPT ![t].scopes =
                          Append(@, [manager |-> pm, token |-> r.token,
                                     ambient_before |-> current_maybe(context_of(t))]),
                                    ![t].lastExit = NoExit]
    /\ observed' = NotObserved
    /\ UNCHANGED notAmbientVars

\* The body of the innermost scope raises, or the task is cancelled at an await in it.
body_raises(t) ==
    /\ CanStep(t)
    /\ tasks[t].scopes # <<>>
    /\ ~tasks[t].exc
    /\ tasks' = [tasks EXCEPT ![t].exc = TRUE, ![t].lastExit = NoExit]
    /\ observed' = NotObserved
    /\ UNCHANGED <<contexts, notAmbientVars>>

\* finally: PluginManager._current.reset(token) -- on the normal way out of the body
\* and on the way out of an exception alike; the exception goes on to the scope around.
as_current_exit(t) ==
    /\ CanStep(t)
    /\ tasks[t].scopes # <<>>
    /\ LET n == Len(tasks[t].scopes)
           scope == tasks[t].scopes[n]
       IN /\ contexts' = [contexts EXCEPT ![tasks[t].ctx] = ContextVar_reset(@, scope.token)]
          /\ tasks' = [tasks EXCEPT ![t].scopes = SubSeq(@, 1, n - 1),
                                    ![t].lastExit = [kind |-> "exit",
                                                     expected |-> scope.ambient_before,
                                                     by_exception |-> tasks[t].exc]]
    /\ observed' = NotObserved
    /\ UNCHANGED notAmbientVars

\* An except clause around a scope catches the exception.
exception_caught(t) ==
    /\ CanStep(t)
    /\ tasks[t].exc
    /\ tasks' = [tasks EXCEPT ![t].exc = FALSE, ![t].lastExit = NoExit]
    /\ observed' = NotObserved
    /\ UNCHANGED <<contexts, notAmbientVars>>

\* asyncio.create_task / gather (kind "task") or asyncio.to_thread (kind "thread")
spawn(parent, child, kind) ==
    /\ CanStep(parent)
    /\ ~tasks[parent].exc
    /\ tasks[child].state = "unborn"
    /\ child = "child2" => tasks["child1"].state # "unborn"
    /\ LET c == copy_context(parent, child)
       IN /\ contexts' = (c.id :> c.content) @@ contexts
          /\ tasks' = [tasks EXCEPT ![child] =
                          [state |-> "running", ctx |-> c.id, scopes |-> <<>>, exc |-> FALSE,
                           kind |-> kind, parent |-> parent,
                           spawned_in_scope |-> scope_active(parent),
                           spawn_ambient |-> current_maybe(context_of(parent)),
                           lastExit |-> NoExit]]
    /\ observed' = NotObserved
    /\ UNCHANGED notAmbientVars

\* The task's function returns, or an exception leaves it.
task_done(t) ==
    /\ CanStep(t)
    /\ t # "main"
    /\ tasks[t].scopes = <<>>
    /\ tasks' = [tasks EXCEPT ![t] = Finished]
    /\ observed' = NotObserved
    /\ UNCHANGED <<contexts, notAmbientVars>>

\* PluginManager.current() and PluginManager.current_maybe() called by the task
observe(t) ==
    /\ CanStep(t)
    /\ observed' = [kind |-> "observed", task |-> t,
                    current |-> current(context_of(t)),
                    maybe |-> current_maybe(context_of(t))]
    /\ UNCHANGED <<contexts, tasks, notAmbientVars>>

NextAmbient ==
    \/ \E t \in TaskNames, pm \in Managers : as_current_enter(t, pm)
    \/ \E t \in TaskNames : body_raises(t)
    \/ \E t \in TaskNames : as_current_exit(t)
    \/ \E t \in TaskNames : exception_caught(t)
    \/ \E p \in TaskNames, c \in TaskNames, k \in {"task", "thread"} : spawn(p, c, k)
    \/ \E t \in TaskNames : task_done(t)
    \/ \E t \in TaskNames : observe(t)

SpecAmbient == InitAmbient /\ [][NextAmbient]_vars

(***************************************************************************)
(* The ambient manager: claims.                                            *)
(***************************************************************************)
\* The innermost open scope of a task.
innermost(t) == tasks[t].scopes[Len(tasks[t].scopes)]

\* C15: for any nesting of as_current scopes within one task, current() inside a scope
\* returns the manager of the innermost scope, and once a scope has exited, normally
\* or through an exception raised in its body, current_maybe() returns the value that
\* was ambient immediately before the scope was entered (None when there was none).
C15_ScopeNesting ==
    \A t \in TaskNames :
       Running(t) =>
          /\ tasks[t].scopes # <<>> =>
                /\ current(context_of(t)) = [ok |-> TRUE, value |-> innermost(t).manager]
                /\ (observed.kind = "observed" /\ observed.task = t) =>
                      observed.current = [ok |-> TRUE, value |-> innermost(t).manager]
          /\ tasks[t].lastExit.kind = "exit" =>
                /\ current_maybe(context_of(t)) = tasks[t].lastExit.expected
                /\ (observed.kind = "observed" /\ observed.task = t) =>
                      observed.maybe = tasks[t].lastExit.expected

\* The inner of two nested scopes has been left through an exception and the task
\* sees the manager of the outer scope again.
C15_Witness ==
    /\ Len(tasks["main"].scopes) = 1
    /\ tasks["main"].scopes[1].manager = "pm1"
    /\ tasks["main"].scopes[1].ambient_before = "None"
    /\ tasks["main"].lastExit = [kind |-> "exit", expected |-> "pm1", by_exception |-> TRUE]
    /\ observed.kind = "observed" /\ observed.task = "main"
    /\ observed.maybe = "pm1"

\* C16: whenever no as_current scope is active in the context of the caller, current()
\* raises CurrentPluginManagerNotSetException and current_maybe() returns None;
\* whenever one is active neither raises and both return the same manager.
C16_CurrentOrRaise ==
    observed.kind = "observed" =>
       IF scope_active(observed.task)
       THEN /\ observed.current.ok
            /\ observed.current.value \in Managers
            /\ observed.maybe = observed.current.value
       ELSE /\ observed.current = [ok |-> FALSE,
                                   exception |-> "CurrentPluginManagerNotSetException"]
            /\ observed.maybe = "None"

\* current() raises for a task that has entered a scope and left it again.
C16_Witness ==
    /\ observed.kind = "observed" /\ observed.task = "main"
    /\ tasks["main"].scopes = <<>>
    /\ tasks["main"].lastExit.kind = "exit"
    /\ ~observed.current.ok
    /\ observed.maybe = "None"

\* Two tasks that run interleaved, each inside a scope of its own.
cooperative(t, u) ==
    /\ t # u
    /\ Running(t) /\ Running(u)
    /\ tasks[t].kind = "task" /\ tasks[u].kind = "task"

\* C17: two cooperative tasks that each enter an as_current scope of a different
\* manager and interleave observe their own manager from current() while inside their
\* scope, and a task that has left its scope observes the value it had before
\* entering, whatever the other task has done in between.
C17_TasksSeeOwnManager ==
    \A t \in TaskNames, u \in TaskNames :
       (cooperative(t, u) /\ tasks[u].scopes # <<>>) =>
          /\ (tasks[t].scopes # <<>> /\ innermost(t).manager # innermost(u).manager) =>
                /\ current(context_of(t)) = [ok |-> TRUE, value |-> innermost(t).manager]
                /\ (observed.kind = "observed" /\ observed.task = t) =>
                      observed.current = [ok |-> TRUE, value |-> innermost(t).manager]
          /\ tasks[t].lastExit.kind = "exit" =>
                current_maybe(context_of(t)) = tasks[t].lastExit.expected

\* Both children of main are inside scopes of different managers, spawned where pm1 was
\* ambient, and child1 sees pm2 while child2 is inside pm1.
C17_Witness ==
    /\ cooperative("child1", "child2")
    /\ tasks["child1"].parent = "main" /\ tasks["child2"].parent = "main"
    /\ tasks["child1"].scopes # <<>> /\ innermost("child1").manager = "pm2"
    /\ tasks["child2"].scopes # <<>> /\ innermost("child2").manager = "pm1"
    /\ observed.kind = "observed" /\ observed.task = "child1"
    /\ observed.current = [ok |-> TRUE, value |-> "pm2"]

\* C18: a spawned task, and a function dispatched with asyncio.to_thread, has the
\* ambient manager of the spawning task at spawn time whenever it is in no scope of
\* its own, and no step of the child changes the ambient manager of the task that
\* spawned it.
C18_ChildInheritsAmbient ==
    /\ [](\A c \in TaskNames :
            (Running(c) /\ c # "main" /\ tasks[c].scopes = <<>>) =>
               current_maybe(context_of(c)) = tasks[c].spawn_ambient)
    /\ [][\A c \in TaskNames :
            (/\ Running(c) /\ c # "main"
             /\ tasks'[c] # tasks[c]
             /\ Running(tasks[c].parent))
            => current_maybe(contexts'[tasks'[tasks[c].parent].ctx])
                  = current_maybe(context_of(tasks[c].parent))]_vars

\* A thread started by main inside a scope of pm1 is inside a scope of pm2, and main
\* still has pm1.
C18_Witness ==
    /\ Running("child1")
    /\ tasks["child1"].kind = "thread" /\ tasks["child1"].parent = "main"
    /\ tasks["child1"].spawn_ambient = "pm1"
    /\ tasks["child1"].scopes # <<>> /\ innermost("child1").manager = "pm2"
    /\ current_maybe(context_of("main")) = "pm1"

(***************************************************************************)
(* Wrapper chains.  A step of a wrapper operation is a payload             *)
(* (nxt, prev, *args) -> result; the runner call_all_as_wrappers (and its  *)
(* async twin) calls the first payload with the initial value as prev, and *)
(* nxt(v, *args) calls the payload after it with v as prev; after the last *)
(* payload nxt returns the prev it is given.                               *)
(* A value is None, a string, kept as the list of the parts it was         *)
(* formatted from, or an int.                                              *)
(***************************************************************************)
None == [none |-> TRUE]
Str(parts) == [none |-> FALSE, parts |-> parts]
Int3 == [none |-> FALSE, int |-> 3]
Part(i, what) == [w |-> i, part |-> what]

\* type(v)
type_of(v) ==
    IF v.none THEN "NoneType"
    ELSE IF "parts" \in DOMAIN v THEN "str"
    ELSE "int"

\* f"{prev}": None is formatted as the text "None", an int as its digits.
format(v) ==
    CASE type_of(v) = "NoneType" -> <<Part(0, "None")>>
      [] type_of(v) = "str" -> v.parts
      [] type_of(v) = "int" -> <<Part(0, "3")>>

CallArgs == {"type1", "type2", "X3"}

\* The payloads: wrappers as the tests write them (one that formats before and after
\* nxt, one that only decorates what nxt returns, one that hands None on), and
\* factories, which produce a value or raise for one argument and return None otherwise.
Wrappers ==
    {[kind |-> "wrapper", pre |-> "tag", post |-> "tag"],
     [kind |-> "wrapper", pre |-> "keep", post |-> "tag"],
     [kind |-> "wrapper", pre |-> "none", post |-> "keep"]}
Factories ==
    {[kind |-> "factory", when |-> "type1", does |-> "make"],
     [kind |-> "factory", when |-> "type2", does |-> "make"],
     [kind |-> "factory", when |-> "type2", does |-> "raise"]}
Payloads == Wrappers \cup Factories

\* fn(*args): the factory function of the payload at position i.
factory_fn(w, i, args) ==
    IF args # w.when THEN [raised |-> FALSE, value |-> None]
    ELSE IF w.does = "raise" THEN [raised |-> TRUE]
    ELSE [raised |-> FALSE, value |-> Str(<<Part(i, "made")>>)]

\* Mutant of factory_implementation: the factory is called whatever prev is.
factory_implementation_always_calls(w, i, prev, args) ==
    LET r == factory_fn(w, i, args)
    IN IF r.raised THEN [raised |-> TRUE, called |-> TRUE]
       ELSE [raised |-> FALSE, called |-> TRUE, passed |-> r.value, args |-> args]

\* factory_implementation: impl(nxt, prev, *args) up to its call of nxt --
\* nxt(prev if prev is not None else fn(*args), *args)
factory_implementation(w, i, prev, args) ==
    IF ~prev.none
    THEN [raised |-> FALSE, called |-> FALSE, passed |-> prev, args |-> args]
    ELSE LET r == factory_fn(w, i, args)
         IN IF r.raised THEN [raised |-> TRUE, called |-> TRUE]
            ELSE [raised |-> FALSE, called |-> TRUE, passed |-> r.value, args |-> args]

\* A payload from its entry to its call of nxt: what it passes on.
payload_before_next(w, i, prev, args) ==
    IF w.kind = "factory" THEN factory_implementation(w, i, prev, args)
    ELSE [raised |-> FALSE, called |-> FALSE, args |-> args,
          passed |-> CASE w.pre = "tag" -> Str(format(prev) \o <<Part(i, "pre")>>)
                      [] w.pre = "keep" -> prev
                      [] w.pre = "none" -> None]

\* A payload from the return of nxt to its own return.
payload_after_next(w, i, got) ==
    IF w.kind = "factory" THEN got
    ELSE CASE w.post = "tag" -> Str(format(got) \o <<Part(i, "post")>>)
           [] w.post = "keep" -> got

\* The checks a handle is given: returning_not_none() and returning_instance_of(str).
ResultChecks == {"not_none", "instance_of_str"}

\* check.check(res): lambda it: it is not None, and lambda it: isinstance(it, ty).
check_of(check, res) ==
    CASE check = "not_none" -> type_of(res) # "NoneType"
      [] check = "instance_of_str" -> type_of(res) = "str"

\* The error raised for the check at position i of the handle's list.
MagicOperationResultCheckError(i) ==
    [raised |-> TRUE, exception |-> "MagicOperationResultCheckError",
     operation |-> "self", check |-> i]

\* for check in self._checks -- from position i on.
RECURSIVE process_checks(_, _, _)
process_checks(checks, res, i) ==
    IF i > Len(checks) THEN [raised |-> FALSE, value |-> res]
    ELSE IF ~check_of(checks[i], res) THEN MagicOperationResultCheckError(i)
    ELSE process_checks(checks, res, i + 1)

\* Mutant of process_result: every check is evaluated and the last failing one is
\* reported.
process_result_reports_last(checks, res) ==
    LET failing == {i \in 1..Len(checks) : ~check_of(checks[i], res)}
    IN IF failing = {} THEN [raised |-> FALSE, value |-> res]
       ELSE MagicOperationResultCheckError(CHOOSE i \in failing : \A j \in failing : j <= i)

\* MagicOperationWithResultProcessing._process_result with the handle's checks
\* (_aprocess_result runs the same function in a thread).
process_result(checks, res) == process_checks(checks, res, 1)

NoEntry == [entered |-> FALSE]

\* Mutant of invoke_with_initial: the initial value is not handed to the runner.
invoke_without_initial(steps, checks, initial, args, mode) ==
    [status |-> "running", mode |-> mode, steps |-> steps, checks |-> checks,
     initial |-> initial, args |-> args,
     pos |-> 1, dir |-> "down", value |-> None, value_args |-> args,
     log |-> [i \in 1..Len(steps) |-> NoEntry], trace |-> <<>>]

\* WrapperCallOperation.invoke_with_initial / AsyncWrapperCallOperation.ainvoke_with_initial:
\* the runner is started on the steps with the initial value.
invoke_with_initial(steps, checks, initial, args, mode) ==
    [status |-> "running", mode |-> mode, steps |-> steps, checks |-> checks,
     initial |-> initial, args |-> args,
     pos |-> 1, dir |-> "down", value |-> initial, value_args |-> args,
     log |-> [i \in 1..Len(steps) |-> NoEntry], trace |-> <<>>]

InitChain ==
    /\ plugins = plugin_set(<<>>, 0)
    /\ ResolverIdle
    /\ CacheIdle
    /\ ConcIdle
    /\ AmbientIdle
    /\ ChainIdle
    /\ RunnersIdle
    /\ AppIdle

\* op.invoke_with_initial(initial, *args), or op(*args) with None as the initial value
chain_invoke(steps, checks, initial, args, mode) ==
    /\ chain.status = "idle"
    /\ chain' = invoke_with_initial(steps, checks, initial, args, mode)
    /\ UNCHANGED notChainVars

\* The runner calls the payload at pos with the value on its way down as prev; the
\* payload runs up to its call of nxt.
chain_call_payload ==
    /\ chain.status = "running" /\ chain.dir = "down"
    /\ chain.pos <= Len(chain.steps)
    /\ LET i == chain.pos
           r == payload_before_next(chain.steps[i], i, chain.value, chain.value_args)
       IN chain' =
            IF r.raised
            THEN [chain EXCEPT !.status = "raised",
                               !.trace = Append(@, [w |-> i, at |-> "before_next"]),
                               !.log[i] = [entered |-> TRUE, prev |-> chain.value,
                                           factory_called |-> r.called, returned_from_next |-> FALSE,
                                           raised |-> TRUE]]
            ELSE [chain EXCEPT !.pos = i + 1,
                               !.trace = Append(@, [w |-> i, at |-> "before_next"]),
                               !.value = r.passed,
                               !.value_args = r.args,
                               !.log[i] = [entered |-> TRUE, prev |-> chain.value,
                                           factory_called |-> r.called, returned_from_next |-> FALSE,
                                           raised |-> FALSE,
                                           passed |-> r.passed, passed_args |-> r.args]]
    /\ UNCHANGED notChainVars

\* Mutant of chain_base_case: nxt may return the prev it is given without calling the
\* payloads that remain.
chain_base_case_early ==
    /\ chain.status = "running" /\ chain.dir = "down"
    /\ chain.pos <= Len(chain.steps) + 1
    /\ chain' = [chain EXCEPT !.dir = "up", !.pos = chain.pos - 1]
    /\ UNCHANGED notChainVars

\* After the last payload nxt returns the prev it was given.
chain_base_case ==
    /\ chain.status = "running" /\ chain.dir = "down"
    /\ chain.pos = Len(chain.steps) + 1
    /\ chain' = [chain EXCEPT !.dir = "up", !.pos = Len(chain.steps)]
    /\ UNCHANGED notChainVars

\* nxt returns to the payload at pos, which runs to its end and returns.
chain_return_payload ==
    /\ chain.status = "running" /\ chain.dir = "up"
    /\ chain.pos >= 1
    /\ LET i == chain.pos
           ret == payload_after_next(chain.steps[i], i, chain.value)
       IN chain' = [chain EXCEPT !.pos = i - 1,
                                 !.trace = Append(@, [w |-> i, at |-> "after_next"]),
                                 !.value = ret,
                                 !.log[i] = [@ EXCEPT !.returned_from_next = TRUE] @@
                                            [got |-> chain.value, returned |-> ret]]
    /\ UNCHANGED notChainVars

\* The runner returns to invoke_with_initial, which returns _process_result(...).
chain_finish ==
    /\ chain.status = "running" /\ chain.dir = "up"
    /\ chain.pos = 0
    /\ LET r == process_result(chain.checks, chain.value)
       IN chain' = IF r.raised
                   THEN [chain EXCEPT !.status = "check_failed"] @@ [error |-> r]
                   ELSE [chain EXCEPT !.status = "done"] @@ [result |-> r.value]
    /\ UNCHANGED notChainVars

NextChain ==
    \/ /\ chain.status = "idle"
       /\ \E steps \in SeqUpTo(Payloads, MaxChain), checks \in SeqUpTo(ResultChecks, MaxChecks),
             initial \in {None, Str(<<Part(0, "v0")>>), Int3}, args \in CallArgs,
             mode \in {"sync", "async"} :
                chain_invoke(steps, checks, initial, args, mode)
    \/ chain_call_payload
    \/ chain_base_case
    \/ chain_return_payload
    \/ chain_finish

SpecChain == InitChain /\ [][NextChain]_vars

(***************************************************************************)
(* Wrapper chains: claims.                                                 *)
(***************************************************************************)
Started == chain.status # "idle"
ChainLen == Len(chain.steps)

\* The payloads of Scenario D (foo-1, then foo) and of Scenario E (fac1, fac2, decorate3).
ScenarioD ==
    <<[kind |-> "wrapper", pre |-> "tag", post |-> "tag"],
      [kind |-> "wrapper", pre |-> "tag", post |-> "tag"]>>
ScenarioE ==
    <<[kind |-> "factory", when |-> "type1", does |-> "make"],
      [kind |-> "factory", when |-> "type2", does |-> "raise"],
      [kind |-> "wrapper", pre |-> "keep", post |-> "tag"]>>

\* C19: for a wrapper chain [w1, ..., wn] invoked with initial value v0, sync or async,
\* the prev seen by w1 is v0, the prev seen by w(i+1) is the value w(i) passed to its
\* nxt, the value nxt returns to w(i) is the return value of w(i+1) (for wn the value
\* wn passed to nxt), and the result of the chain is the return value of w1; Scenario D
\* yields "None+foo1+foo2+foo2p+foo1p".
C19_WrapperChainLaws ==
    Started =>
       /\ \A i \in 1..ChainLen :
            chain.log[i].entered =>
               /\ chain.log[i].prev = IF i = 1 THEN chain.initial ELSE chain.log[i - 1].passed
               /\ chain.log[i].returned_from_next =>
                     chain.log[i].got = IF i < ChainLen THEN chain.log[i + 1].returned
                                        ELSE chain.log[i].passed
       /\ chain.status = "done" =>
            /\ chain.result = IF ChainLen = 0 THEN chain.initial ELSE chain.log[1].returned
            /\ (chain.steps = ScenarioD /\ chain.initial = None) =>
                  chain.result = Str(<<Part(0, "None"), Part(1, "pre"), Part(2, "pre"),
                                       Part(2, "post"), Part(1, "post")>>)

\* A chain of three formatting wrappers, run asynchronously from a given initial value,
\* has returned.
C19_Witness ==
    /\ chain.status = "done"
    /\ chain.mode = "async"
    /\ ChainLen = 3
    /\ \A i \in 1..3 : chain.steps[i] = [kind |-> "wrapper", pre |-> "tag", post |-> "tag"]
    /\ chain.initial = Str(<<Part(0, "v0")>>)
    /\ chain.result = Str(<<Part(0, "v0"), Part(1, "pre"), Part(2, "pre"), Part(3, "pre"),
                            Part(3, "post"), Part(2, "post"), Part(1, "post")>>)

\* What a factory payload does at its position: it calls its factory exactly when the
\* prev reaching it is None, passes the factory's result (otherwise the prev) to nxt
\* with the caller's arguments, and returns what nxt returns.
factory_law(i) ==
    LET e == chain.log[i]
    IN (chain.steps[i].kind = "factory" /\ e.entered) =>
          /\ e.factory_called <=> e.prev.none
          /\ ~e.raised =>
                /\ e.passed = IF e.factory_called
                              THEN factory_fn(chain.steps[i], i, chain.args).value
                              ELSE e.prev
                /\ e.passed_args = chain.args
                /\ e.returned_from_next => e.returned = e.got

\* A factory that was called and returned a value other than None.
produced(i) ==
    /\ chain.steps[i].kind = "factory"
    /\ chain.log[i].entered
    /\ chain.log[i].factory_called
    /\ ~chain.log[i].raised
    /\ ~chain.log[i].passed.none

\* When no payload raises, every payload of the chain runs.
all_run == chain.status \in {"done", "check_failed"} => \A i \in 1..ChainLen : chain.log[i].entered

\* C20, as the specification states it: the factory law, and once some factory has
\* returned a non-None value no later factory of the sequence is invoked, while the
\* ordinary wrappers later in the sequence still run.
C20_Original ==
    Started =>
       /\ \A i \in 1..ChainLen : factory_law(i)
       /\ \A i \in 1..ChainLen, j \in 1..ChainLen :
            (i < j /\ produced(i) /\ chain.steps[j].kind = "factory" /\ chain.log[j].entered)
               => ~chain.log[j].factory_called
       /\ all_run

\* C20, as the code behaves: the factory law; once some factory has returned a non-None
\* value, a later factory is not invoked unless a wrapper between the two has passed
\* None to its nxt; the ordinary wrappers later in the sequence still run.  Scenario E:
\* "type1" gives "f1+decorator" without a call of the second factory, "X3" gives
\* "None+decorator", "type2" raises in the second factory.
C20_FactoryLaw ==
    Started =>
       /\ \A i \in 1..ChainLen : factory_law(i)
       /\ \A i \in 1..ChainLen, j \in 1..ChainLen :
            (/\ i < j /\ produced(i)
             /\ chain.steps[j].kind = "factory" /\ chain.log[j].entered
             /\ \A k \in (i + 1)..(j - 1) : ~chain.log[k].passed.none)
               => ~chain.log[j].factory_called
       /\ all_run
       /\ (chain.steps = ScenarioE /\ chain.initial = None /\ chain.checks = <<>>) =>
            /\ (chain.args = "type1" /\ chain.status = "done") =>
                  /\ chain.result = Str(<<Part(1, "made"), Part(3, "post")>>)
                  /\ ~chain.log[2].factory_called
            /\ (chain.args = "X3" /\ chain.status = "done") =>
                  chain.result = Str(<<Part(0, "None"), Part(3, "post")>>)
            /\ chain.args = "type2" => chain.status # "done"
            /\ (chain.args = "type2" /\ chain.log[2].entered) => chain.status = "raised"

\* Scenario E with "type1": the first factory made the value, the second was reached
\* and not called, the decorator ran.
C20_Witness ==
    /\ chain.status = "done"
    /\ chain.steps = ScenarioE
    /\ chain.initial = None
    /\ chain.args = "type1"
    /\ produced(1)
    /\ chain.log[2].entered /\ ~chain.log[2].factory_called
    /\ chain.result = Str(<<Part(1, "made"), Part(3, "post")>>)

\* The runner has returned to the handle and the handle has processed the result.
Processed == chain.status \in {"done", "check_failed"}

\* The places of the trace at which a part of the given kind of some payload ran.
places(at) == {k \in 1..Len(chain.trace) : chain.trace[k].at = at}

\* C31: in a wrapper chain whose wrappers each call next once, the parts before the
\* next call run in resolver order, the parts after it run in reverse resolver order,
\* and the part after next of a wrapper starts only when every payload behind it in
\* the chain has run both its parts.
C31_ChainNesting ==
    Started =>
       /\ \A a \in places("before_next"), b \in places("before_next") :
             a < b => chain.trace[a].w < chain.trace[b].w
       /\ \A a \in places("after_next"), b \in places("after_next") :
             a < b => chain.trace[a].w > chain.trace[b].w
       /\ \A b \in places("after_next") :
             /\ \E a \in places("before_next") : a < b /\ chain.trace[a].w = chain.trace[b].w
             /\ \A j \in (chain.trace[b].w + 1)..ChainLen :
                   /\ \E a \in places("before_next") : a < b /\ chain.trace[a].w = j
                   /\ \E a \in places("after_next") : a < b /\ chain.trace[a].w = j
       /\ Processed =>
             chain.trace = [k \in 1..(2 * ChainLen) |->
                              IF k <= ChainLen THEN [w |-> k, at |-> "before_next"]
                              ELSE [w |-> 2 * ChainLen + 1 - k, at |-> "after_next"]]

\* A chain of three wrappers, run asynchronously, is on its way back: the third and
\* the second have run their parts after next, the first has not yet.
C31_Witness ==
    /\ chain.status = "running" /\ chain.mode = "async"
    /\ ChainLen = 3
    /\ \A i \in 1..3 : chain.steps[i].kind = "wrapper"
    /\ chain.trace = <<[w |-> 1, at |-> "before_next"], [w |-> 2, at |-> "before_next"],
                       [w |-> 3, at |-> "before_next"], [w |-> 3, at |-> "after_next"],
                       [w |-> 2, at |-> "after_next"]>>

\* The checks of the handle that reject the value r, by position.
rejecting(r) == {i \in 1..Len(chain.checks) : ~check_of(chain.checks[i], r)}

\* C28: after the discipline of a wrapper-chain handle returns a value r, the checks
\* of the handle are evaluated on r in the order they were added: when all pass r is
\* returned unchanged, otherwise MagicOperationResultCheckError is raised with the
\* handle as operation and the first failing check; returning_instance_of(str)
\* accepts a string and rejects 3.
C28_ChecksInOrder ==
    Processed =>
       LET r == chain.value
       IN /\ r = (IF ChainLen = 0 THEN chain.initial ELSE chain.log[1].returned)
          /\ rejecting(r) = {} =>
                /\ chain.status = "done"
                /\ chain.result = r
          /\ rejecting(r) # {} =>
                /\ chain.status = "check_failed"
                /\ chain.error.exception = "MagicOperationResultCheckError"
                /\ chain.error.operation = "self"
                /\ chain.error.check \in rejecting(r)
                /\ \A i \in rejecting(r) : chain.error.check <= i
          /\ chain.checks = <<"instance_of_str">> =>
                /\ type_of(r) = "str" => chain.status = "done" /\ chain.result = r
                /\ r = Int3 => chain.status = "check_failed" /\ chain.error.check = 1

\* A handle with returning_not_none() and then returning_instance_of(str) whose chain,
\* a factory that passes on the 3 it is started with, returned 3: the first check
\* passed and the error carries the second.
C28_Witness ==
    /\ chain.status = "check_failed"
    /\ chain.checks = <<"not_none", "instance_of_str">>
    /\ ChainLen = 1 /\ chain.steps[1].kind = "factory"
    /\ chain.value = Int3
    /\ chain.error.check = 2

(***************************************************************************)
(* The parallel-async runner.  CallAllAsyncConcurrentOperation.ainvoke and *)
(* the launcher hand the resolved steps to call_all_parallel_async, which  *)
(* creates one asyncio task per step and returns the tasks; the task of a  *)
(* step awaits the tasks of the step's dependencies, one after another,    *)
(* and then calls the payload.  The scheduler picks any task that can go   *)
(* on.                                                                     *)
(***************************************************************************)
\* MagicOperation.get_steps_no_cache, consumed: the resolver is called and the
\* generator it returns is iterated.
get_steps_no_cache(ps, op_name) ==
    LET r == get_operation_sequence_call(ps, op_name)
    IN IF r.raised # NoException
       THEN [raised |-> TRUE, exc |-> r.raised]
       ELSE [raised |-> FALSE, steps |-> iterate_loop(r.gen.ts, r.gen.steps)]

step_names(steps) == {steps[i].name : i \in 1..Len(steps)}

\* The task created for the step of that name.
task_of(steps, name) == CHOOSE j \in 1..Len(steps) : steps[j].name = name

\* The dependencies of steps[i] that are steps of the sequence, in the order the
\* step lists them: the tasks its task awaits.
joined(steps, i) == SelectSeq(steps[i].dependencies, LAMBDA d : d \in step_names(steps))

NewTask == [state |-> "pending", awaited |-> 0, entered |-> FALSE, by |-> "none"]
TaskOver == {"done", "failed", "cancelled"}

\* call_all_parallel_async(steps, ...): a task per step, none of them started.
call_all_parallel_async(steps) == [i \in 1..Len(steps) |-> NewTask]

\* Mutant of ready: the payload is called without waiting for any dependency.
ready_at_once(tsk, steps, i) == TRUE

\* The task of steps[i] has awaited the task of every dependency.
ready(tsk, steps, i) == tsk[i].awaited = Len(joined(steps, i))

\* Mutant of run_step_join: the outcome of the awaited task is ignored.
run_step_join_ignores_failure(tsk, steps, i) == [tsk EXCEPT ![i].awaited = @ + 1]

\* The task of steps[i] resumes from awaiting the task of its next dependency,
\* which is over: it goes on to the next one, or ends cancelled when the awaited
\* task failed or was cancelled.
run_step_join(tsk, steps, i) ==
    LET d == task_of(steps, joined(steps, i)[tsk[i].awaited + 1])
    IN IF tsk[d].state = "done"
       THEN [tsk EXCEPT ![i].awaited = @ + 1]
       ELSE [tsk EXCEPT ![i].state = "cancelled", ![i].by = "dependency"]

\* CallAllAsyncConcurrentOperation.ainvoke (the handles of operations.py have
\* cache_steps=False): the steps are resolved and handed to the runner.
ainvoke(ps, op_name, mode) ==
    LET r == get_steps_no_cache(ps, op_name)
    IN IF r.raised
       THEN [status |-> "raised", mode |-> mode, steps |-> <<>>, task |-> <<>>,
             returned |-> "error", order |-> <<>>]
       ELSE [status |-> "scheduled", mode |-> mode, steps |-> r.steps,
             task |-> call_all_parallel_async(r.steps),
             returned |-> IF mode = "ainvoke" THEN "tasks" ELSE "not_yet",
             order |-> <<>>]

InitParallel ==
    /\ \E n \in 0..MaxSteps :
         \E names \in {nm \in [1..n -> Names] : first_use_order(nm)} :
           \E es \in SeqUpTo([step : 1..n, kind : {"dep", "rdep"}, target : Names], MaxEdges) :
               plugins = plugin_set(contributed(names, es, n), n)
    /\ ResolverIdle
    /\ CacheIdle
    /\ ConcIdle
    /\ AmbientIdle
    /\ ChainIdle
    /\ RunnersIdle
    /\ AppIdle

\* tasks = await op.ainvoke(): runs up to the return of the runner.
par_ainvoke ==
    /\ par.status = "idle"
    /\ par' = ainvoke(plugins, "init", "ainvoke")
    /\ UNCHANGED notParVars

\* await op.ainvoke_all(): asyncio.gather wraps the coroutine self.ainvoke(...)
\* in a task of its own and ainvoke_all awaits the gathering future.
par_ainvoke_all ==
    /\ par.status = "idle"
    /\ par' = [status |-> "gathering", mode |-> "ainvoke_all", steps |-> <<>>,
               task |-> <<>>, returned |-> "not_yet", order |-> <<>>]
    /\ UNCHANGED notParVars

\* The task that gather made runs self.ainvoke(...) to its end; its result is the
\* collection of the tasks of the steps.
par_gather_runs_ainvoke ==
    /\ par.status = "gathering"
    /\ par' = [ainvoke(plugins, "init", "ainvoke_all") EXCEPT !.returned = "not_yet"]
    /\ UNCHANGED notParVars

\* The gathering future has the result of its one awaitable: ainvoke_all resumes
\* and returns (or raises what ainvoke raised).
par_ainvoke_all_return ==
    /\ par.status \in {"scheduled", "raised"}
    /\ par.mode = "ainvoke_all" /\ par.returned = "not_yet"
    /\ par' = [par EXCEPT !.returned = IF par.status = "raised" THEN "error" ELSE "nothing"]
    /\ UNCHANGED notParVars

\* launcher, line 169: init_tasks = await call_all_parallel_async(
\* pm.get_operation_sequence('init'))
par_launcher_schedule ==
    /\ par.status = "idle"
    /\ par' = [ainvoke(plugins, "init", "launcher") EXCEPT
                  !.returned = IF @ = "error" THEN "error" ELSE "not_yet"]
    /\ UNCHANGED notParVars

\* launcher, line 172: await _run_with_interrupts(asyncio.gather(*init_tasks))
\* returns when every task is done and raises as soon as one has failed.
par_launcher_gather ==
    /\ par.status = "scheduled" /\ par.mode = "launcher" /\ par.returned = "not_yet"
    /\ \/ /\ \A i \in 1..Len(par.steps) : par.task[i].state = "done"
          /\ par' = [par EXCEPT !.returned = "nothing"]
       \/ /\ \E i \in 1..Len(par.steps) : par.task[i].state \in {"failed", "cancelled"}
          /\ par' = [par EXCEPT !.returned = "error"]
    /\ UNCHANGED notParVars

\* launcher, lines 102-103 and 173-175: a signal arrives while the tasks run.
par_interrupt ==
    /\ par.status = "scheduled" /\ par.mode = "launcher" /\ par.returned = "not_yet"
    /\ par' = [par EXCEPT !.returned = "interrupted"]
    /\ UNCHANGED notParVars

\* The task of steps[i] resumes from the await of a dependency's task.
task_join(i) ==
    /\ par.status = "scheduled"
    /\ i \in 1..Len(par.steps)
    /\ par.task[i].state = "pending"
    /\ ~ready(par.task, par.steps, i)
    /\ par.task[task_of(par.steps, joined(par.steps, i)[par.task[i].awaited + 1])].state
          \in TaskOver
    /\ par' = [par EXCEPT !.task = run_step_join(par.task, par.steps, i)]
    /\ UNCHANGED notParVars

\* The task of steps[i] calls the payload.
task_enter(i) ==
    /\ par.status = "scheduled"
    /\ i \in 1..Len(par.steps)
    /\ par.task[i].state = "pending"
    /\ ready(par.task, par.steps, i)
    /\ par' = [par EXCEPT !.task[i].state = "running", !.task[i].entered = TRUE,
                          !.order = Append(@, i)]
    /\ UNCHANGED notParVars

\* The payload of steps[i] returns or raises.
task_finish(i, ok) ==
    /\ par.status = "scheduled"
    /\ i \in 1..Len(par.steps)
    /\ par.task[i].state = "running"
    /\ par' = [par EXCEPT !.task[i].state = IF ok THEN "done" ELSE "failed"]
    /\ UNCHANGED notParVars

\* The caller of ainvoke cancels one of the tasks it was given.
task_cancel(i) ==
    /\ par.status = "scheduled" /\ par.returned = "tasks"
    /\ i \in 1..Len(par.steps)
    /\ par.task[i].state \in {"pending", "running"}
    /\ par' = [par EXCEPT !.task[i].state = "cancelled", !.task[i].by = "caller"]
    /\ UNCHANGED notParVars

NextParallel ==
    \/ par_ainvoke
    \/ par_ainvoke_all
    \/ par_gather_runs_ainvoke
    \/ par_ainvoke_all_return
    \/ par_launcher_schedule
    \/ par_launcher_gather
    \/ par_interrupt
    \/ \E i \in 1..MaxSteps : task_join(i)
    \/ \E i \in 1..MaxSteps : task_enter(i)
    \/ \E i \in 1..MaxSteps, ok \in BOOLEAN : task_finish(i, ok)
    \/ \E i \in 1..MaxSteps : task_cancel(i)

SpecParallel == InitParallel /\ [][NextParallel]_vars

(***************************************************************************)
(* The parallel-async runner: claims.                                      *)
(***************************************************************************)
\* The tasks the task of steps[i] awaits.
direct(steps, i) == {task_of(steps, d) : d \in Range(joined(steps, i))}

RECURSIVE upstream(_, _, _)
upstream(steps, S, n) ==
    IF n = 0 THEN S
    ELSE upstream(steps, S \cup UNION {direct(steps, j) : j \in S}, n - 1)

\* The steps that steps[i] depends on, directly or through other steps.
depends_on(steps, i) == upstream(steps, direct(steps, i), Len(steps))

\* C21: in the parallel-async discipline, under every interleaving of the tasks, no
\* step's payload is entered before the task of every step named in its dependencies
\* (and present in the sequence) has completed; steps with no dependency relation
\* may start in any order.
C21_DependenciesFirst ==
    par.status = "scheduled" =>
       \A i \in 1..Len(par.steps) :
          par.task[i].entered =>
             \A d \in Range(par.steps[i].dependencies) :
                d \in step_names(par.steps) =>
                   /\ par.task[task_of(par.steps, d)].state = "done"
                   /\ \E m, n \in 1..Len(par.order) :
                         /\ m < n
                         /\ par.order[m] = task_of(par.steps, d)
                         /\ par.order[n] = i

\* Of three steps one depends on another, whose payload was entered and has returned
\* before its own was entered; the third, unrelated and last in the sequence, was
\* entered first.
C21_Witness ==
    /\ par.status = "scheduled"
    /\ Len(par.steps) = 3
    /\ \E i, j \in 1..2 :
          /\ joined(par.steps, i) = <<par.steps[j].name>>
          /\ joined(par.steps, j) = <<>>
          /\ joined(par.steps, 3) = <<>>
          /\ par.order = <<3, j, i>>

\* C22: ainvoke_all starts all steps of the operation and returns only after the task
\* of every step has completed, whereas ainvoke returns the created tasks without
\* waiting for them.
C22_AinvokeAllWaits ==
    /\ (par.status = "scheduled" /\ par.mode = "ainvoke_all" /\ par.returned = "nothing") =>
          \A i \in 1..Len(par.steps) : par.task[i].state \in TaskOver
    /\ (par.status = "scheduled" /\ par.mode = "ainvoke") => par.returned = "tasks"

\* C23: in the parallel-async discipline, if the task of a step fails or is cancelled,
\* the payload of every step that (transitively) depends on it is never entered and
\* the task of such a step, once over, is cancelled; no task is cancelled by the
\* runner unless a step it depends on has failed or was cancelled.
C23_FailurePropagates ==
    par.status = "scheduled" =>
       \A i \in 1..Len(par.steps) :
          /\ (\E d \in depends_on(par.steps, i) : par.task[d].state \in {"failed", "cancelled"}) =>
                /\ ~par.task[i].entered
                /\ par.task[i].state \in {"pending", "cancelled"}
          /\ (par.task[i].state = "cancelled" /\ par.task[i].by # "caller") =>
                \E d \in direct(par.steps, i) : par.task[d].state \in {"failed", "cancelled"}

\* The payload of the first of three chained steps raised; the tasks of the second,
\* which depends on it, and of the third, which depends on the second, ended
\* cancelled without the caller cancelling anything.
C23_Witness ==
    /\ par.status = "scheduled"
    /\ Len(par.steps) = 3
    /\ joined(par.steps, 2) = <<par.steps[1].name>>
    /\ joined(par.steps, 3) = <<par.steps[2].name>>
    /\ par.task[1].state = "failed"
    /\ par.task[2] = [state |-> "cancelled", awaited |-> 0, entered |-> FALSE, by |-> "dependency"]
    /\ par.task[3] = [state |-> "cancelled", awaited |-> 0, entered |-> FALSE, by |-> "dependency"]
    /\ par.order = <<1>>

(***************************************************************************)
(* The sequential runners.  call_all and call_until_first_result walk the  *)
(* step sequence on the calling task, one payload call after another.  A   *)
(* payload is known by what its call does: it returns None or a value, or  *)
(* it raises.                                                              *)
(***************************************************************************)
Ret(v) == [kind |-> "return", value |-> v, exc |-> "none"]
Raise(x) == [kind |-> "raise", value |-> "None", exc |-> x]

\* What the payloads given to call_all do, and those given to call_until_first_result.
CallAllOutcomes == {Ret("None"), Ret("v1"), Raise("e1"), Raise("e2")}
FirstResultOutcomes == {Ret("None"), Ret("v1"), Ret("v2"), Raise("PluginExcludedException")}
RunArgs == {"x", "y"}
NoArgs == "none"

\* The entry of the call log for the payload at pos.
called(run) == Append(run.calls, [step |-> run.steps[run.pos].step, args |-> run.args])

\* call_all(steps, *args): one turn of its loop, or its return after the last step.
call_all_step(run) ==
    IF run.pos > Len(run.steps)
    THEN [run EXCEPT !.status = "returned"]
    ELSE LET out == run.behaviours[run.pos]
         IN IF out.kind = "raise"
            THEN [run EXCEPT !.status = "raised", !.exc = out.exc, !.calls = called(run)]
            ELSE [run EXCEPT !.pos = @ + 1, !.calls = called(run)]

\* call_until_first_result(steps, *args): one turn of its loop, or the return of
\* None after the last step.
call_until_first_result_step(run) ==
    IF run.pos > Len(run.steps)
    THEN [run EXCEPT !.status = "returned"]
    ELSE LET out == run.behaviours[run.pos]
         IN IF out.kind = "raise"
            THEN [run EXCEPT !.status = "raised", !.exc = out.exc, !.calls = called(run)]
            ELSE IF out.value # "None"
                 THEN [run EXCEPT !.status = "returned", !.result = out.value,
                                  !.calls = called(run)]
                 ELSE [run EXCEPT !.pos = @ + 1, !.calls = called(run)]

\* A runner called with the steps and the arguments, before its first turn.
runner_called(runner, steps, args, caller_args, behaviours) ==
    [status |-> "running", runner |-> runner, steps |-> steps, args |-> args,
     caller_args |-> caller_args, behaviours |-> behaviours, pos |-> 1,
     calls |-> <<>>, result |-> "None", exc |-> "none"]

\* The resolver raised before the runner was called.
runner_not_called(runner, caller_args) ==
    [status |-> "raised", runner |-> runner, steps |-> <<>>, args |-> NoArgs,
     caller_args |-> caller_args, behaviours |-> <<>>, pos |-> 1,
     calls |-> <<>>, result |-> "None", exc |-> "DependencyCycleException"]

\* Mutant of invoke: the runner is called without the caller's arguments.
invoke_without_args(r, args, behaviours) ==
    IF r.raised THEN runner_not_called("call_all", args)
    ELSE runner_called("call_all", r.steps, NoArgs, args, behaviours)

\* CallAllOperation.invoke: call_all(self.get_steps(), *args, **kwargs), r being
\* what get_steps gave.
invoke(r, args, behaviours) ==
    IF r.raised THEN runner_not_called("call_all", args)
    ELSE runner_called("call_all", r.steps, args, args, behaviours)

\* Mutant of first_result_of: the steps are handed to the runner last first.
first_result_of_reversed(r, args, behaviours) ==
    IF r.raised THEN runner_not_called("call_until_first_result", args)
    ELSE runner_called("call_until_first_result", Reverse(r.steps), args, args,
                       Reverse(behaviours))

\* PluginDiscoveryPlugin: call_until_first_result(pm.get_operation_sequence(...), *args)
first_result_of(r, args, behaviours) ==
    IF r.raised THEN runner_not_called("call_until_first_result", args)
    ELSE runner_called("call_until_first_result", r.steps, args, args, behaviours)

\* The behaviours of the payloads of a resolved sequence, one per step.
Behaviours(r, outcomes) == IF r.raised THEN {<<>>} ELSE [1..Len(r.steps) -> outcomes]

InitSequential ==
    /\ \E n \in 0..MaxSteps :
         \E names \in {nm \in [1..n -> Names] : first_use_order(nm)} :
           \E es \in SeqUpTo([step : 1..n, kind : {"dep", "rdep"}, target : Names], MaxEdges) :
               plugins = plugin_set(contributed(names, es, n), n)
    /\ ResolverIdle
    /\ CacheIdle
    /\ ConcIdle
    /\ AmbientIdle
    /\ ChainIdle
    /\ RunnersIdle
    /\ AppIdle

\* op(*args) on a CallAllOperation handle
seq_invoke(args) ==
    /\ srun.status = "idle"
    /\ LET r == get_steps_no_cache(plugins, "init")
       IN \E behaviours \in Behaviours(r, CallAllOutcomes) :
             srun' = invoke(r, args, behaviours)
    /\ UNCHANGED notSeqVars

\* call_until_first_result(pm.get_operation_sequence(op_name), *args)
seq_first_result(args) ==
    /\ srun.status = "idle"
    /\ LET r == get_steps_no_cache(plugins, "init")
       IN \E behaviours \in Behaviours(r, FirstResultOutcomes) :
             srun' = first_result_of(r, args, behaviours)
    /\ UNCHANGED notSeqVars

\* The next turn of the loop of call_all.
seq_call_all_step ==
    /\ srun.status = "running" /\ srun.runner = "call_all"
    /\ srun' = call_all_step(srun)
    /\ UNCHANGED notSeqVars

\* The next turn of the loop of call_until_first_result.
seq_first_result_step ==
    /\ srun.status = "running" /\ srun.runner = "call_until_first_result"
    /\ srun' = call_until_first_result_step(srun)
    /\ UNCHANGED notSeqVars

NextSequential ==
    \/ \E args \in RunArgs : seq_invoke(args)
    \/ \E args \in RunArgs : seq_first_result(args)
    \/ seq_call_all_step
    \/ seq_first_result_step

SpecSequential == InitSequential /\ [][NextSequential]_vars


(***************************************************************************)
(* The sequential runners: claims.                                         *)
(***************************************************************************)
\* The payload calls logged so far are those of the first steps of the resolved
\* sequence, in its order, each with the arguments of the caller.
calls_in_order(r) ==
    /\ Len(srun.calls) <= Len(r.steps)
    /\ \A i \in 1..Len(srun.calls) :
          srun.calls[i] = [step |-> r.steps[i].step, args |-> srun.caller_args]

\* C24: call_all invokes the payloads one at a time in resolver order with the
\* caller's arguments and ignores their return values; if the payload at position i
\* raises, the payloads at positions greater than i are never invoked and the same
\* error propagates to the caller.
C24_CallAllInOrder ==
    (srun.status # "idle" /\ srun.runner = "call_all") =>
       LET r == get_steps_no_cache(plugins, "init")
           n == Len(srun.calls)
       IN IF r.raised THEN srun.status = "raised" /\ n = 0
          ELSE /\ calls_in_order(r)
               /\ \A i \in 1..(n - 1) : srun.behaviours[i].kind = "return"
               /\ srun.status = "running" =>
                     /\ n = srun.pos - 1
                     /\ \A i \in 1..n : srun.behaviours[i].kind = "return"
               /\ srun.status = "returned" =>
                     /\ n = Len(r.steps)
                     /\ \A i \in 1..n : srun.behaviours[i].kind = "return"
                     /\ srun.result = "None"
               /\ srun.status = "raised" =>
                     /\ n >= 1
                     /\ srun.behaviours[n].kind = "raise"
                     /\ srun.exc = srun.behaviours[n].exc

\* Of three payloads the first returned a value, the second raised e1: call_all
\* raised e1 and the third was not called.
C24_Witness ==
    /\ srun.status = "raised" /\ srun.runner = "call_all"
    /\ srun.behaviours = <<Ret("v1"), Raise("e1"), Ret("None")>>
    /\ Len(srun.calls) = 2
    /\ srun.exc = "e1"

\* C25: call_until_first_result invokes payloads in resolver order and returns the
\* first return value that is not None; payloads after the one that produced it are
\* never invoked; if every payload returns None (or the sequence is empty) the
\* result is None.
C25_FirstResult ==
    (srun.status # "idle" /\ srun.runner = "call_until_first_result") =>
       LET r == get_steps_no_cache(plugins, "init")
           n == Len(srun.calls)
       IN ~r.raised =>
             /\ calls_in_order(r)
             /\ \A i \in 1..(n - 1) : srun.behaviours[i] = Ret("None")
             /\ srun.status = "returned" =>
                   IF \E i \in 1..Len(r.steps) : srun.behaviours[i] # Ret("None")
                   THEN /\ n >= 1
                        /\ srun.behaviours[n].kind = "return"
                        /\ srun.result = srun.behaviours[n].value
                        /\ srun.result # "None"
                   ELSE /\ n = Len(r.steps)
                        /\ srun.result = "None"

\* Of three payloads the first returned None, the second v2: the result is v2 and
\* the third, which would have returned v1, was not called.
C25_Witness ==
    /\ srun.status = "returned" /\ srun.runner = "call_until_first_result"
    /\ srun.behaviours = <<Ret("None"), Ret("v2"), Ret("v1")>>
    /\ Len(srun.calls) = 2
    /\ srun.result = "v2"


(***************************************************************************)
(* Plugin discovery.  PluginDiscoveryPlugin.bootstrap walks the files that *)
(* match pluginPaths; for each it runs the operation                       *)
(* discover_plugins_at_path with call_until_first_result, whose step       *)
(* discover_python_module imports the file and runs the operation          *)
(* discover_plugins_in_module on the module; the plugins found are         *)
(* registered and announced with plugin_discovered unless excluded.        *)
(* A path is kept as its stem and its extension, a module as the plugins   *)
(* and plugin classes among its attributes and its own name and version.   *)
(***************************************************************************)
\* the files that match pluginPaths
MaxFiles == 2

Paths == {[stem |-> "m1", ext |-> ".py"], [stem |-> "m2", ext |-> ".py"],
          [stem |-> "m1", ext |-> ".txt"]}
ModuleAttrs ==
    {<<>>,
     <<[kind |-> "class", name |-> "p1", version |-> "1"]>>,
     <<[kind |-> "instance", name |-> "p1", version |-> "1"]>>,
     <<[kind |-> "class", name |-> "p2", version |-> "1"]>>,
     <<[kind |-> "class", name |-> "p1", version |-> "1"],
       [kind |-> "class", name |-> "p2", version |-> "1"]>>,
     <<[kind |-> "instance", name |-> "p1", version |-> "1"],
       [kind |-> "class", name |-> "p2", version |-> "1"]>>}
\* the attributes name and version of the module itself: strings, or missing
ModuleNames == {[name |-> "None", version |-> "None"], [name |-> "p2", version |-> "1"]}
Modules == [attrs : ModuleAttrs, magic : ModuleNames]
Files == [path : Paths, module : Modules]
\* what excludePlugins may list: a file name with and without extension, a plugin
\* name, a plugin name with its version
ExcludeTokens == {"m1.py", "m2", "p1", "p2@1"}

\* os.path.basename(path)
basename(path) == path.stem \o path.ext
\* os.path.splitext(file_basename)[0]
module_name(path) == path.stem
\* Plugin.__str__
plugin_str(p) == p.name \o "@" \o p.version

\* What a discovery payload does: it returns None or a list of plugins, or raises
\* PluginExcludedException.
ReturnsNone == [kind |-> "return", value |-> "None", exc |-> "none", plugins |-> <<>>]
Found(ps) == [kind |-> "return", value |-> "plugins", exc |-> "none", plugins |-> ps]
RaisesExcluded ==
    [kind |-> "raise", value |-> "None", exc |-> "PluginExcludedException", plugins |-> <<>>]

\* The plugin made from an attribute of the module of a file.
plugin_from(a, path) == [name |-> a.name, version |-> a.version, file |-> basename(path)]

\* MagicModulePlugin(module): the plugin that a module with a name and a version is.
MagicModulePlugin(file) ==
    [name |-> file.module.magic.name, version |-> file.module.magic.version,
     file |-> basename(file.path)]

RECURSIVE scan_attrs(_, _, _, _, _)
\* discover_plugins_in_module, the loop over the attributes: instances are found,
\* classes are found unless their name is excluded.
scan_attrs(attrs, path, excluded_set, found, excluded) ==
    IF attrs = <<>> THEN [found |-> found, excluded |-> excluded]
    ELSE LET a == Head(attrs)
         IN IF a.kind = "instance"
            THEN scan_attrs(Tail(attrs), path, excluded_set,
                            Append(found, plugin_from(a, path)), excluded)
            ELSE IF a.name \in excluded_set
                 THEN scan_attrs(Tail(attrs), path, excluded_set, found, excluded + 1)
                 ELSE scan_attrs(Tail(attrs), path, excluded_set,
                                 Append(found, plugin_from(a, path)), excluded)

\* PluginDiscoveryPlugin.discover_plugins_in_module (step discover_explicit_plugins)
discover_plugins_in_module(file, excluded_set) ==
    LET s == scan_attrs(file.module.attrs, file.path, excluded_set, <<>>, 0)
    IN IF Len(s.found) > 0 THEN Found(s.found)
       ELSE IF s.excluded > 0 THEN RaisesExcluded
       ELSE ReturnsNone

\* PluginDiscoveryPlugin.discover_magic_plugin_module
discover_magic_plugin_module(file) ==
    IF file.module.magic.name = "None" THEN ReturnsNone
    ELSE IF file.module.magic.version = "None" THEN ReturnsNone
    ELSE Found(<<MagicModulePlugin(file)>>)

\* The steps the discovery plugin declares itself: discover_magic_plugin_module is
\* declared after discover_explicit_plugins.
own_steps(op_name) ==
    CASE op_name = "discover_plugins_at_path" ->
            <<OperationStep("discover_plugins_at_path", "discover_python_module",
                            "discover_plugins", <<>>, <<>>)>>
      [] op_name = "discover_plugins_in_module" ->
            <<OperationStep("discover_plugins_in_module", "discover_explicit_plugins",
                            "discover_plugins", <<>>, <<>>),
              OperationStep("discover_magic_plugin_module", "discover_magic_plugin_module",
                            "discover_plugins", <<"discover_explicit_plugins">>, <<>>)>>
      [] OTHER -> <<>>

\* The steps of the plugin the manager is given next to the discovery plugin: it
\* listens to plugin_discovered and has a step of discover_plugins_at_path that
\* knows no .py or .txt file.
listener_steps(op_name) ==
    CASE op_name = "discover_plugins_at_path" ->
            <<OperationStep("discover_archive", "discover_archive", "listener", <<>>, <<>>)>>
      [] op_name = "plugin_discovered" ->
            <<OperationStep("plugin_discovered", "plugin_discovered", "listener",
                            <<>>, <<>>)>>
      [] OTHER -> <<>>

\* The steps of a plugin found in a file: one of discover_plugins_at_path, which
\* knows no file, and one of plugin_discovered, both named after the plugin.
discovered_steps(p, op_name) ==
    IF op_name \in {"discover_plugins_at_path", "plugin_discovered"}
    THEN <<OperationStep(p.name \o "." \o op_name \o "@" \o p.file,
                         op_name \o "_" \o p.name, plugin_str(p), <<>>, <<>>)>>
    ELSE <<>>

\* Mutant of PluginDiscoveryPlugin_get_operation_steps: the plugin's own steps
\* come before those of the plugins it found.
PluginDiscoveryPlugin_get_operation_steps_own_first(ps, op_name) ==
    own_steps(op_name) \o Concat([i \in 1..Len(ps) |-> discovered_steps(ps[i], op_name)])

\* PluginDiscoveryPlugin.get_operation_steps, ps being self._plugins: the steps of
\* the plugins found so far, then the plugin's own.
PluginDiscoveryPlugin_get_operation_steps(ps, op_name) ==
    Concat([i \in 1..Len(ps) |-> discovered_steps(ps[i], op_name)]) \o own_steps(op_name)

\* The plugins of the manager when the discovery plugin has found ps.
manager_plugins(ps) ==
    <<[name |-> "discover_plugins",
       steps |-> [op \in DiscoveryOps |-> PluginDiscoveryPlugin_get_operation_steps(ps, op)]],
      [name |-> "listener", steps |-> [op \in DiscoveryOps |-> listener_steps(op)]]>>

\* list(pm.get_operation_sequence(op_name)) when the discovery plugin has found ps.
sequence_with(ps, op_name) == get_steps_no_cache(manager_plugins(ps), op_name)

\* The sequences the resolver gives for the plugins the manager is built with, written
\* out: the discovery plugin, whose step discover_magic_plugin_module is
\* declared after discover_explicit_plugins, and a plugin that listens to
\* plugin_discovered and has a step of discover_plugins_at_path that knows no
\* .py or .txt file.
discovery_sequence(op_name) ==
    [raised |-> FALSE,
     steps |->
        CASE op_name = "discover_plugins_at_path" ->
                <<OperationStep("discover_plugins_at_path", "discover_python_module",
                                "discover_plugins", <<>>, <<>>),
                  OperationStep("discover_archive", "discover_archive", "listener",
                                <<>>, <<>>)>>
          [] op_name = "discover_plugins_in_module" ->
                <<OperationStep("discover_plugins_in_module", "discover_explicit_plugins",
                                "discover_plugins", <<>>, <<>>),
                  OperationStep("discover_magic_plugin_module", "discover_magic_plugin_module",
                                "discover_plugins", <<"discover_explicit_plugins">>, <<>>)>>
          [] op_name = "plugin_discovered" ->
                <<OperationStep("plugin_discovered", "plugin_discovered", "listener",
                                <<>>, <<>>)>>]

RECURSIVE run_to_end(_)
\* A sequential runner from its call to its return or raise.
run_to_end(run) ==
    IF run.status # "running" THEN run
    ELSE run_to_end(IF run.runner = "call_all" THEN call_all_step(run)
                    ELSE call_until_first_result_step(run))

\* What the payload of a step of discover_plugins_in_module does with the module.
module_payload(step, file, excluded_set) ==
    CASE step.step = "discover_plugins_in_module" -> discover_plugins_in_module(file, excluded_set)
      [] step.step = "discover_magic_plugin_module" -> discover_magic_plugin_module(file)

NoRun == [status |-> "none", calls |-> <<>>, steps |-> <<>>, behaviours |-> <<>>]

\* Mutant of discover_plugins_at_path: an exception of the operation on the module
\* is swallowed and None returned.
discover_plugins_at_path_swallows(file, excluded_set) ==
    IF file.path.ext # ".py" THEN [out |-> ReturnsNone, imported |-> FALSE, inner |-> NoRun]
    ELSE IF basename(file.path) \in excluded_set
         THEN [out |-> RaisesExcluded, imported |-> FALSE, inner |-> NoRun]
    ELSE IF module_name(file.path) \in excluded_set
         THEN [out |-> RaisesExcluded, imported |-> FALSE, inner |-> NoRun]
    ELSE LET r == discovery_sequence("discover_plugins_in_module")
             inner == run_to_end(first_result_of(r, file.path,
                         [i \in 1..Len(r.steps) |-> module_payload(r.steps[i], file, excluded_set)]))
         IN [out |-> IF inner.status = "raised" THEN ReturnsNone
                     ELSE inner.behaviours[Len(inner.calls)],
             imported |-> TRUE, inner |-> inner]

\* PluginDiscoveryPlugin.discover_plugins_at_path (step discover_python_module):
\* the file is imported unless its name is excluded, and the operation
\* discover_plugins_in_module is run on the module.
discover_plugins_at_path(file, excluded_set) ==
    IF file.path.ext # ".py" THEN [out |-> ReturnsNone, imported |-> FALSE, inner |-> NoRun]
    ELSE IF basename(file.path) \in excluded_set
         THEN [out |-> RaisesExcluded, imported |-> FALSE, inner |-> NoRun]
    ELSE IF module_name(file.path) \in excluded_set
         THEN [out |-> RaisesExcluded, imported |-> FALSE, inner |-> NoRun]
    ELSE LET r == discovery_sequence("discover_plugins_in_module")
             inner == run_to_end(first_result_of(r, file.path,
                         [i \in 1..Len(r.steps) |-> module_payload(r.steps[i], file, excluded_set)]))
         IN [out |-> IF inner.status = "raised" THEN RaisesExcluded
                     ELSE IF inner.result = "None" THEN ReturnsNone
                     ELSE inner.behaviours[Len(inner.calls)],
             imported |-> TRUE, inner |-> inner]

\* What the payload of a step of discover_plugins_at_path does with the file.
path_payload(step, file, excluded_set) ==
    IF step.step = "discover_plugins_at_path"
    THEN discover_plugins_at_path(file, excluded_set)
    ELSE [out |-> ReturnsNone, imported |-> FALSE, inner |-> NoRun]

\* Mutant of is_excluded: only the name of the plugin is looked up.
is_excluded_by_name(p, excluded_set) == p.name \in excluded_set

\* bootstrap, line 98: plugin.name in self._excluded or str(plugin) in self._excluded
is_excluded(p, excluded_set) == p.name \in excluded_set \/ plugin_str(p) \in excluded_set

RECURSIVE register(_, _, _)
\* bootstrap, lines 97-107: the plugins of one file are registered and announced.
register(d, found, announce) ==
    IF found = <<>> THEN d
    ELSE IF is_excluded(Head(found), d.excluded) THEN register(d, Tail(found), announce)
    ELSE register([d EXCEPT !.registered = Append(@, Head(found)),
                            !.discovered = Append(@, Head(found)),
                            !.announced = @ \o run_to_end(
                                runner_called("call_all", announce, Head(found), Head(found),
                                              [i \in 1..Len(announce) |-> ReturnsNone])).calls],
                  Tail(found), announce)

NoSnapshot == [plugin_discover_op |-> <<>>, plugin_discovered_op |-> <<>>]

\* Mutant of plugin_discover_op: the operation is resolved again at every file.
plugin_discover_op_resolved_again(d) ==
    sequence_with(d.registered, "discover_plugins_at_path").steps

\* bootstrap, the local plugin_discover_op: the list made before the loop.
plugin_discover_op(d) == d.snapshot.plugin_discover_op

\* Mutant of plugin_discovered_op: the operation is resolved again at every file.
plugin_discovered_op_resolved_again(d) == sequence_with(d.registered, "plugin_discovered").steps

\* bootstrap, the local plugin_discovered_op: the list made before the loop.
plugin_discovered_op(d) == d.snapshot.plugin_discovered_op

\* bootstrap, lines 79-107: one turn of the loop over the files.
bootstrap_turn(d) ==
    LET file == d.files[d.pos]
        r == [raised |-> FALSE, steps |-> plugin_discover_op(d)]
        done_by == [i \in 1..Len(r.steps) |-> path_payload(r.steps[i], file, d.excluded)]
        outer == run_to_end(first_result_of(r, file.path,
                                            [i \in 1..Len(r.steps) |-> done_by[i].out]))
        imports == {i \in 1..Len(outer.calls) : done_by[i].imported}
        inner == IF \E i \in 1..Len(outer.calls) : done_by[i].inner.status # "none"
                 THEN done_by[CHOOSE i \in 1..Len(outer.calls) :
                                   done_by[i].inner.status # "none"].inner
                 ELSE NoRun
        entry == [path |-> file.path, outer |-> outer, inner |-> inner,
                  outcome |-> IF outer.status = "raised" THEN "excluded"
                              ELSE IF outer.result = "None" THEN "none" ELSE "plugins"]
        logged_d == [d EXCEPT !.pos = @ + 1, !.log = Append(@, entry),
                              !.imported = IF imports # {} THEN Append(@, file.path) ELSE @]
    IN IF entry.outcome = "plugins"
       THEN register(logged_d, outer.behaviours[Len(outer.calls)].plugins,
                     plugin_discovered_op(d))
       ELSE logged_d

InitDiscovery ==
    /\ plugins = plugin_set(<<>>, 0)
    /\ ResolverIdle
    /\ CacheIdle
    /\ ConcIdle
    /\ AmbientIdle
    /\ ChainIdle
    /\ RunnersIdle
    /\ HandleIdle
    /\ LaunchIdle
    /\ ManagersIdle
    /\ \E files \in SeqUpTo(Files, MaxFiles) :
          /\ \A i, j \in 1..Len(files) : i # j => files[i].path # files[j].path
          /\ discovery = [status |-> "created", excludePlugins |-> {}, excluded |-> {},
                          configured |-> FALSE, files |-> files, pos |-> 1, log |-> <<>>,
                          registered |-> <<>>, discovered |-> <<>>, announced |-> <<>>,
                          imported |-> <<>>, snapshot |-> NoSnapshot]

\* receive_config(config): self._excluded = set(config['excludePlugins'])
receive_config(excludePlugins) ==
    /\ discovery.status = "created" /\ ~discovery.configured
    /\ discovery' = [discovery EXCEPT !.excludePlugins = excludePlugins,
                                      !.excluded = excludePlugins,
                                      !.configured = TRUE]
    /\ UNCHANGED notDiscoveryVars

\* bootstrap, lines 72-77: the two operations are resolved before the loop.
bootstrap_enter ==
    /\ discovery.status = "created"
    /\ discovery' =
         [discovery EXCEPT
            !.status = "bootstrap",
            !.snapshot =
               [plugin_discover_op |->
                   sequence_with(discovery.registered, "discover_plugins_at_path").steps,
                plugin_discovered_op |->
                   sequence_with(discovery.registered, "plugin_discovered").steps]]
    /\ UNCHANGED notDiscoveryVars

\* bootstrap, lines 79-107: the next file.
bootstrap_path ==
    /\ discovery.status = "bootstrap"
    /\ discovery.pos <= Len(discovery.files)
    /\ discovery' = bootstrap_turn(discovery)
    /\ UNCHANGED notDiscoveryVars

\* bootstrap returns after the last file.
bootstrap_return ==
    /\ discovery.status = "bootstrap"
    /\ discovery.pos > Len(discovery.files)
    /\ discovery' = [discovery EXCEPT !.status = "done"]
    /\ UNCHANGED notDiscoveryVars

NextDiscovery ==
    \/ \E x \in SUBSET ExcludeTokens : receive_config(x)
    \/ bootstrap_enter
    \/ bootstrap_path
    \/ bootstrap_return

SpecDiscovery == InitDiscovery /\ [][NextDiscovery]_vars


(***************************************************************************)
(* Plugin discovery: claims.                                               *)
(***************************************************************************)
\* If a payload of the run raises before any payload returns a result, the run
\* raised its exception and called no payload after it.
raise_stops(run) ==
    \A i \in 1..Len(run.steps) :
       (/\ run.behaviours[i].kind = "raise"
        /\ \A j \in 1..(i - 1) :
              run.behaviours[j].kind = "return" /\ run.behaviours[j].value = "None")
       => /\ run.status = "raised"
          /\ run.exc = run.behaviours[i].exc
          /\ Len(run.calls) = i

\* C26: when a payload invoked by call_until_first_result raises
\* PluginExcludedException, the error propagates to the caller and no later payload
\* of the sequence is invoked, even when the raising step is not the last one;
\* during plugin discovery the affected path is then skipped and no plugin from it
\* is registered.
C26_ExcludedPropagates ==
    discovery.status # "idle" =>
       \A k \in 1..Len(discovery.log) :
          LET entry == discovery.log[k]
          IN /\ raise_stops(entry.outer)
             /\ entry.inner.status # "none" => raise_stops(entry.inner)
             /\ entry.inner.status = "raised" => entry.outer.status = "raised"
             /\ entry.outer.status = "raised" =>
                   /\ entry.outer.exc = "PluginExcludedException"
                   /\ entry.outcome = "excluded"
                   /\ \A i \in 1..Len(discovery.registered) :
                         discovery.registered[i].file # basename(entry.path)
                   /\ \A i \in 1..Len(discovery.announced) :
                         discovery.announced[i].args.file # basename(entry.path)

\* The only plugin class of a module is excluded by name, so the first of the two
\* steps run on the module raised; the second, which would have found the plugin
\* that the module itself is, was not called, nor was the step after
\* discover_python_module, and bootstrap ended with nothing registered.
C26_Witness ==
    /\ discovery.status = "done"
    /\ Len(discovery.log) = 1
    /\ discovery.files[1].module.magic.name = "p2"
    /\ discovery.log[1].inner.status = "raised"
    /\ Len(discovery.log[1].inner.calls) = 1 /\ Len(discovery.log[1].inner.steps) = 2
    /\ discovery.log[1].outer.status = "raised"
    /\ Len(discovery.log[1].outer.calls) = 1 /\ Len(discovery.log[1].outer.steps) = 2
    /\ discovery.registered = <<>>

\* C30: with the excluded set fixed before bootstrap, every plugin ever present in
\* the discovery plugin's registered list has neither its name nor its
\* "name@version" string in excludePlugins; for an excluded plugin the
\* plugin_discovered operation is never invoked, and a file whose base name (with or
\* without .py) is excluded is never imported.
C30_ExcludedNeverRegistered ==
    discovery.status # "idle" =>
       /\ \A i \in 1..Len(discovery.registered) :
             /\ discovery.registered[i].name \notin discovery.excludePlugins
             /\ plugin_str(discovery.registered[i]) \notin discovery.excludePlugins
       /\ \A i \in 1..Len(discovery.announced) :
             /\ discovery.announced[i].args.name \notin discovery.excludePlugins
             /\ plugin_str(discovery.announced[i].args) \notin discovery.excludePlugins
       /\ \A i \in 1..Len(discovery.imported) :
             /\ basename(discovery.imported[i]) \notin discovery.excludePlugins
             /\ module_name(discovery.imported[i]) \notin discovery.excludePlugins

\* m1.py and p2@1 are excluded: m1.py was not imported, and of the classes p1 and p2
\* of m2.py only p1 was registered and announced.
C30_Witness ==
    /\ discovery.status = "done"
    /\ discovery.excludePlugins = {"m1.py", "p2@1"}
    /\ Len(discovery.files) = 2
    /\ basename(discovery.files[1].path) = "m1.py"
    /\ discovery.files[1].module.attrs # <<>>
    /\ basename(discovery.files[2].path) = "m2.py"
    /\ Len(discovery.files[2].module.attrs) = 2
    /\ discovery.imported = <<discovery.files[2].path>>
    /\ Len(discovery.registered) = 1
    /\ discovery.registered[1].name = "p1" /\ discovery.registered[1].file = "m2.py"
    /\ Len(discovery.announced) = 1
    /\ discovery.announced[1].args = discovery.registered[1]


(***************************************************************************)
(* Operation handles.  MagicOperation.get_steps asks the current manager   *)
(* for the steps of the handle's operation: with cache_steps through       *)
(* operation_cache under the key _OPERATION_STEPS_CACHE_KEY, without it    *)
(* from the resolver each time.                                            *)
(***************************************************************************)
\* _OPERATION_STEPS_CACHE_KEY = id(MagicOperation)
OPERATION_STEPS_CACHE_KEY == "id(MagicOperation)"

\* Mutant of get_steps: cache_steps is ignored, the resolver is asked each time.
get_steps_never_caches(cache, ps, op_name, cache_steps) ==
    [cache |-> cache, ran |-> TRUE, raised |-> get_steps_no_cache(ps, op_name).raised,
     steps |-> IF get_steps_no_cache(ps, op_name).raised THEN <<>>
               ELSE get_steps_no_cache(ps, op_name).steps]

\* get_steps once get_steps_no_cache is known to give r: the lookup through
\* operation_cache, whose compute is lambda: list(self.get_steps_no_cache()).
get_steps_through_cache(cache, r, op_name) ==
    LET c == operation_cache_call(cache, op_name, OPERATION_STEPS_CACHE_KEY,
                [raises |-> r.raised, value |-> IF r.raised THEN <<>> ELSE r.steps])
    IN [cache |-> c.cache, ran |-> c.computed, raised |-> c.raised,
        steps |-> IF c.raised THEN <<>> ELSE c.ret]

\* get_steps of a handle without cache_steps: what get_steps_no_cache gives.
get_steps_direct(cache, r) ==
    [cache |-> cache, ran |-> TRUE, raised |-> r.raised,
     steps |-> IF r.raised THEN <<>> ELSE r.steps]

\* MagicOperation.get_steps; ran tells whether get_operation_sequence was called.
get_steps(cache, ps, op_name, cache_steps) ==
    IF ~cache_steps
    THEN get_steps_direct(cache, get_steps_no_cache(ps, op_name))
    ELSE get_steps_through_cache(cache, get_steps_no_cache(ps, op_name), op_name)

\* The drop covers the operation: it names it, or a plugin that lists it, or it
\* names no operation and no plugin that can list its operations.
covers(operations, plugin, op_name) ==
    IF operations.given THEN op_name \in Range(operations.value)
    ELSE IF plugin.given /\ plugin.value.listable
         THEN op_name \in Range(plugin.value.operations)
         ELSE TRUE

\* The drops made next to the handles: without keys, and of another user's key.
HandleDrops ==
    LET OpLists == SeqUpTo(Ops, MaxArgLen)
    IN  {<<Given(os), NotGiven, NotGiven>> : os \in OpLists}
        \cup {<<NotGiven, NotGiven, Given(p)>> : p \in PluginListings}
        \cup {<<NotGiven, NotGiven, NotGiven>>}
        \cup {<<Given(os), Given(<<k>>), NotGiven>> : os \in SeqUpTo(Ops, 1), k \in Keys}

NoGetSteps == [kind |-> "none"]

InitHandle ==
    /\ \E n \in 0..MaxSteps :
         \E names \in {nm \in [1..n -> Names] : first_use_order(nm)} :
           \E es \in SeqUpTo([step : 1..n, kind : {"dep", "rdep"}, target : Names], MaxEdges) :
               plugins = plugin_set(contributed(names, es, n), n)
    /\ ResolverIdle
    /\ CacheIdle
    /\ ConcIdle
    /\ AmbientIdle
    /\ ChainIdle
    /\ RunnersIdle
    /\ LaunchIdle
    /\ DiscoveryIdle
    /\ ManagersIdle
    /\ handle = [status |-> "active",
                 called |-> [op \in Ops |-> FALSE],
                 returned |-> [op \in Ops |-> FALSE],
                 kept |-> [op \in Ops |-> <<>>],
                 last |-> NoGetSteps]

\* The handles after a get_steps call that gave r: called, returned and kept tell
\* what the handles with cache_steps did since the start or the last drop that
\* covers the operation.
after_get_steps(h, r, resolved, op_name, cache_steps, cache_before) ==
    [h EXCEPT
       !.called[op_name] = @ \/ cache_steps,
       !.returned[op_name] = @ \/ (cache_steps /\ ~r.raised),
       !.kept[op_name] = IF cache_steps /\ ~r.raised /\ ~h.returned[op_name]
                         THEN r.steps ELSE @,
       !.last = [kind |-> "get_steps", op_name |-> op_name,
                 cache_steps |-> cache_steps, ran |-> r.ran, raised |-> r.raised,
                 steps |-> r.steps, resolved |-> resolved,
                 called_before |-> h.called[op_name],
                 returned_before |-> h.returned[op_name],
                 kept_before |-> h.kept[op_name],
                 cache_before |-> cache_before]]

\* op.get_steps() on the handle of op_name made with cache_steps
handle_get_steps(op_name, cache_steps) ==
    /\ handle.status = "active"
    /\ op_cache' = get_steps(op_cache, plugins, op_name, cache_steps).cache
    /\ handle' = after_get_steps(handle, get_steps(op_cache, plugins, op_name, cache_steps),
                                 get_steps_no_cache(plugins, op_name),
                                 op_name, cache_steps, op_cache)
    /\ UNCHANGED notHandleVars

\* pm.drop_operation_cache(operations=..., keys=..., plugin=...)
handle_drop(operations, keys, plugin) ==
    /\ handle.status = "active"
    /\ LET r == drop_operation_cache_call(op_cache, operations, keys, plugin)
           covered == {op \in Ops : ~keys.given /\ covers(operations, plugin, op)}
       IN /\ op_cache' = r.cache
          /\ handle' =
               [handle EXCEPT
                  !.called = [op \in Ops |-> IF op \in covered THEN FALSE ELSE @[op]],
                  !.returned = [op \in Ops |-> IF op \in covered THEN FALSE ELSE @[op]],
                  !.kept = [op \in Ops |-> IF op \in covered THEN <<>> ELSE @[op]],
                  !.last = NoGetSteps]
    /\ UNCHANGED notHandleVars

\* A plugin whose steps are made on demand stops yielding its last step of "init".
handle_steps_change ==
    /\ handle.status = "active"
    /\ Len(plugins[1].steps["init"]) > 0
    /\ plugins' = [plugins EXCEPT ![1].steps["init"] = SubSeq(@, 1, Len(@) - 1)]
    /\ handle' = [handle EXCEPT !.last = NoGetSteps]
    /\ UNCHANGED <<logged, gen, raised, yielded, seqLog, hint, cacheVars, concVars,
                   ambientVars, chainVars, runnerVars, launch, discovery, managers>>

NextHandle ==
    \/ \E op \in Ops, cache_steps \in BOOLEAN : handle_get_steps(op, cache_steps)
    \/ \E d \in HandleDrops : handle_drop(d[1], d[2], d[3])
    \/ handle_steps_change

SpecHandle == InitHandle /\ [][NextHandle]_vars

(***************************************************************************)
(* Operation handles: claims.                                              *)
(***************************************************************************)
\* What every reading of the claim shares: between two runs of the resolver the
\* handle returns the list the cache keeps, and a handle without cache_steps runs
\* the resolver on every call, returns what it gives and leaves the cache alone.
steps_kept_or_fresh ==
    /\ (handle.last.cache_steps /\ handle.last.returned_before) =>
          /\ ~handle.last.raised
          /\ handle.last.steps = handle.last.kept_before
    /\ ~handle.last.cache_steps =>
          /\ handle.last.ran
          /\ handle.last.raised = handle.last.resolved.raised
          /\ ~handle.last.raised => handle.last.steps = handle.last.resolved.steps
          /\ op_cache = handle.last.cache_before

\* C27 as stated: with cache_steps the resolver runs on the first call and on the
\* first call after a drop that covers the operation, and on no other call.
C27_Original ==
    (handle.status = "active" /\ handle.last.kind = "get_steps") =>
       /\ steps_kept_or_fresh
       /\ handle.last.cache_steps => (handle.last.ran <=> ~handle.last.called_before)

\* C27: for a handle with cache_steps=True, get_steps() under the same manager runs
\* the resolver exactly on the calls before which no call has returned a step list
\* since the start or the last drop that covers the operation (the first call, the
\* first call after such a drop, and the calls that follow only calls in which the
\* resolver raised), and returns the same step list in between; for a handle with
\* cache_steps=False every call runs the resolver again and nothing is stored in the
\* operation cache.
C27_StepsCached ==
    (handle.status = "active" /\ handle.last.kind = "get_steps") =>
       /\ steps_kept_or_fresh
       /\ handle.last.cache_steps => (handle.last.ran <=> ~handle.last.returned_before)
       /\ (handle.last.cache_steps /\ ~handle.last.called_before) => handle.last.ran

\* A handle with cache_steps returned the two steps it got on an earlier call without
\* running the resolver, although the plugin has stopped yielding one of them.
C27_Witness ==
    /\ handle.status = "active" /\ handle.last.kind = "get_steps"
    /\ handle.last.cache_steps /\ ~handle.last.ran
    /\ Len(handle.last.steps) = 2
    /\ ~handle.last.resolved.raised
    /\ Len(handle.last.resolved.steps) = 1

(***************************************************************************)
(* The launcher.  launch_application makes a manager of the core plugins   *)
(* and, inside with pm.as_current(), parses the command line leniently,    *)
(* runs bootstrap, parses the command line strictly and hands              *)
(* run_async_operations to asyncio.run, which runs init, run and           *)
(* terminate.  An operation is known here by whether it returns or raises; *)
(* the command line by what argparse does with it.                         *)
(***************************************************************************)
\* sys.argv: nothing the parser objects to, an option no plugin declares, --help,
\* a value of -w that is not an int, and -w 0.
ArgvKinds == {"plain", "unknown", "help", "invalid", "no_workers"}

\* ap.parse_args() if strict else ap.parse_known_args(), with add_help=strict: does
\* the parser end the process with SystemExit.
parser_exits(argv, strict) ==
    CASE argv \in {"plain", "no_workers"} -> FALSE
      [] argv = "invalid" -> TRUE
      [] argv \in {"unknown", "help"} -> strict

\* Mutant of then: bootstrap is followed by asyncio.run, without the strict pass.
then_without_strict_pass(pc, strict) ==
    CASE pc = "with" -> [pc |-> "setup_cli_arguments", strict |-> FALSE]
      [] pc = "setup_cli_arguments" -> [pc |-> "parse", strict |-> strict]
      [] pc = "parse" -> [pc |-> "receive_cli_arguments", strict |-> strict]
      [] pc = "receive_cli_arguments" -> [pc |-> IF strict THEN "asyncio_run" ELSE "bootstrap",
                                          strict |-> strict]
      [] pc = "bootstrap" -> [pc |-> "asyncio_run", strict |-> strict]
      [] pc = "asyncio_run" -> [pc |-> "init", strict |-> strict]

\* The statement that follows the one at pc when that one completes: the body of
\* with pm.as_current() -- parse_args(False), bootstrap(), parse_args(True),
\* asyncio.run(...) -- and in parse_args(strict) setup_cli_arguments(ap), the parse,
\* receive_cli_arguments(args).
then(pc, strict) ==
    CASE pc = "with" -> [pc |-> "setup_cli_arguments", strict |-> FALSE]
      [] pc = "setup_cli_arguments" -> [pc |-> "parse", strict |-> strict]
      [] pc = "parse" -> [pc |-> "receive_cli_arguments", strict |-> strict]
      [] pc = "receive_cli_arguments" -> [pc |-> IF strict THEN "asyncio_run" ELSE "bootstrap",
                                          strict |-> strict]
      [] pc = "bootstrap" -> [pc |-> "setup_cli_arguments", strict |-> TRUE]
      [] pc = "asyncio_run" -> [pc |-> "init", strict |-> strict]

\* The statement at pc has completed.
goes_on(l) ==
    LET t == then(l.pc, l.strict)
    IN [l EXCEPT !.pc = t.pc, !.strict = t.strict]

\* An exception (or SystemExit) leaves the body of the with statement.
leaves_body(l, exc) == [l EXCEPT !.pc = "with_exit", !.pending = exc]

\* The operation op is run at the statement reached: what the code it runs sees as
\* the current manager, and the plugins of the manager it runs over.
operation_run(l, op, ctx) ==
    [l EXCEPT !.log = Append(@, [op |-> op, ambient |-> current_maybe(ctx),
                                 strict |-> l.strict, app_plugins |-> l.app_plugins])]

NoToken == [old_value |-> MISSING]

\* init, run and terminate: the operations run_async_operations runs.
AsyncOperations == {"init", "run", "terminate"}

\* A task the runner has made: not over, no cancellation requested.
PendingTask == [state |-> "pending", cancel_requested |-> FALSE]

\* launch_application is called, from code with no ambient manager or from inside a
\* scope of another manager: pm = PluginManagerImpl(core_plugins).
InitLauncher ==
    /\ plugins = plugin_set(<<>>, 0)
    /\ ResolverIdle
    /\ CacheIdle
    /\ ConcIdle
    /\ AmbientIdle
    /\ ChainIdle
    /\ RunnersIdle
    /\ HandleIdle
    /\ DiscoveryIdle
    /\ ManagersIdle
    /\ \E argv \in ArgvKinds, ctx \in {MISSING, "pm2"}, cyclic \in {"none"} \cup AsyncOperations,
          steps \in [{"init", "run"} -> 0..MaxTasks] :
          launch = [status |-> "running", pc |-> "with", strict |-> FALSE, argv |-> argv,
                    context |-> ctx, token |-> NoToken, loop_context |-> MISSING,
                    app_plugins |-> 0, log |-> <<>>, pending |-> "none",
                    cyclic |-> cyclic, steps |-> steps, try_entered |-> FALSE,
                    init_tasks |-> <<>>, run_tasks |-> <<>>, run_scheduled |-> FALSE,
                    interrupted |-> FALSE, signalled |-> {}, scheduled |-> <<>>]

\* with pm.as_current():
launch_as_current ==
    /\ launch.status = "running" /\ launch.pc = "with"
    /\ LET r == ContextVar_set(launch.context, "pm1")
       IN launch' = goes_on([launch EXCEPT !.context = r.ctx, !.token = r.token])
    /\ UNCHANGED notLaunchVars

\* parse_args: setup_cli_arguments(ap)
launch_setup_cli_arguments(raises) ==
    /\ launch.status = "running" /\ launch.pc = "setup_cli_arguments"
    /\ LET l == operation_run(launch, "setup_cli_arguments", launch.context)
       IN launch' = IF raises THEN leaves_body(l, "exception") ELSE goes_on(l)
    /\ UNCHANGED notLaunchVars

\* parse_args: args = ap.parse_args(), or args, _ = ap.parse_known_args()
launch_parse ==
    /\ launch.status = "running" /\ launch.pc = "parse"
    /\ launch' = IF parser_exits(launch.argv, launch.strict)
                 THEN leaves_body(launch, "SystemExit")
                 ELSE goes_on(launch)
    /\ UNCHANGED notLaunchVars

\* parse_args: receive_cli_arguments(args)
launch_receive_cli_arguments(raises) ==
    /\ launch.status = "running" /\ launch.pc = "receive_cli_arguments"
    /\ LET l == operation_run(launch, "receive_cli_arguments", launch.context)
       IN launch' = IF raises THEN leaves_body(l, "exception") ELSE goes_on(l)
    /\ UNCHANGED notLaunchVars

\* bootstrap(): the discovery plugin registers the application plugins it finds.
launch_bootstrap(found, raises) ==
    /\ launch.status = "running" /\ launch.pc = "bootstrap"
    /\ LET l == operation_run(launch, "bootstrap", launch.context)
       IN launch' = IF raises THEN leaves_body(l, "exception")
                    ELSE goes_on([l EXCEPT !.app_plugins = found])
    /\ UNCHANGED notLaunchVars

\* asyncio.run(run_async_operations(), debug=asyncio_debug): the coroutine runs as a
\* task of a new loop, in a copy of the caller's context; it makes the executor
\* (ThreadPoolExecutor raises ValueError for max_workers = 0) and enters the try.
launch_asyncio_run ==
    /\ launch.status = "running" /\ launch.pc = "asyncio_run"
    /\ launch' = IF launch.argv = "no_workers"
                 THEN leaves_body([launch EXCEPT !.loop_context = launch.context], "exception")
                 ELSE goes_on([launch EXCEPT !.loop_context = launch.context,
                                             !.try_entered = TRUE])
    /\ UNCHANGED notLaunchVars

\* pm.get_operation_sequence(op) raises DependencyCycleException at the call
\* when the steps of the operation depend on each other in a cycle.
resolving_raises(l, op) == l.cyclic = op

\* call_all_parallel_async(pm.get_operation_sequence(op)): one task per step.
scheduled_tasks(l, op) == [i \in 1..l.steps[op] |-> PendingTask]

\* asyncio.gather(*tasks): the future fails as soon as one task has failed or was
\* cancelled, and completes when every task is done.
gather(ts) ==
    IF \E i \in 1..Len(ts) : ts[i].state \in {"failed", "cancelled"} THEN "failed"
    ELSE IF \A i \in 1..Len(ts) : ts[i].state = "done" THEN "completed"
    ELSE "pending"

\* asyncio.gather(*tasks, return_exceptions=True): completes when no task is pending.
gather_return_exceptions(ts) ==
    IF \A i \in 1..Len(ts) : ts[i].state # "pending" THEN "completed" ELSE "pending"

\* _run_with_interrupts(future): the ways the call can end in the present state --
\* asyncio.wait returns with the future or the interrupt task done, and
\* (completed, *_) is one of those that are: InterruptedError when it is the
\* interrupt task, otherwise the outcome of awaiting the future.
run_with_interrupts(future, interrupted) ==
    (IF future # "pending" THEN {future} ELSE {})
       \cup (IF interrupted THEN {"interrupted"} ELSE {})

\* Mutant of after_init: an interrupt during init returns past the finally clause.
after_init_skips_finally(l, outcome) ==
    CASE outcome = "completed" -> [l EXCEPT !.pc = "run", !.interrupted = FALSE]
      [] outcome = "interrupted" -> [l EXCEPT !.pc = "with_exit", !.interrupted = FALSE]
      [] outcome = "failed" ->
            [l EXCEPT !.pc = "terminate", !.pending = "exception", !.interrupted = FALSE]

\* run_async_operations after await _run_with_interrupts(asyncio.gather(*init_tasks)):
\* on to the run operation, or to the finally clause by return (InterruptedError) or
\* by the exception of an init task.
after_init(l, outcome) ==
    CASE outcome = "completed" -> [l EXCEPT !.pc = "run", !.interrupted = FALSE]
      [] outcome = "interrupted" -> [l EXCEPT !.pc = "terminate", !.interrupted = FALSE]
      [] outcome = "failed" ->
            [l EXCEPT !.pc = "terminate", !.pending = "exception", !.interrupted = FALSE]

\* task.cancel(): a request that a pending task meets at its next suspension point.
cancel(t) == [t EXCEPT !.cancel_requested = TRUE]

\* Mutant of after_run: the run tasks are cancelled only after an interrupt.
after_run_cancels_on_interrupt(l, outcome) ==
    [l EXCEPT !.pc = "terminate",
              !.pending = IF outcome = "failed" THEN "exception" ELSE @,
              !.interrupted = FALSE,
              !.run_tasks = IF outcome = "interrupted"
                            THEN [i \in 1..Len(@) |-> cancel(@[i])] ELSE @]

\* run_async_operations after await _run_with_interrupts(asyncio.gather(*run_tasks)):
\* finally: for task in run_tasks: task.cancel() -- and on to the outer finally.
after_run(l, outcome) ==
    [l EXCEPT !.pc = "terminate",
              !.pending = IF outcome = "failed" THEN "exception" ELSE @,
              !.interrupted = FALSE,
              !.run_tasks = [i \in 1..Len(@) |-> cancel(@[i])]]

\* run_async_operations: init_tasks = await call_all_parallel_async(
\* pm.get_operation_sequence('init'))
launch_init ==
    /\ launch.status = "running" /\ launch.pc = "init"
    /\ launch' =
         LET l == operation_run(launch, "init", launch.loop_context)
         IN IF resolving_raises(launch, "init")
            THEN [l EXCEPT !.pc = "terminate", !.pending = "exception"]
            ELSE [l EXCEPT !.pc = "await_init", !.scheduled = Append(@, "init"),
                           !.init_tasks = scheduled_tasks(launch, "init")]
    /\ UNCHANGED notLaunchVars

\* await _run_with_interrupts(asyncio.gather(*init_tasks)) ends.
launch_await_init ==
    /\ launch.status = "running" /\ launch.pc = "await_init"
    /\ \E outcome \in run_with_interrupts(gather(launch.init_tasks), launch.interrupted) :
          launch' = after_init(launch, outcome)
    /\ UNCHANGED notLaunchVars

\* run_tasks = await call_all_parallel_async(pm.get_operation_sequence('run'))
launch_run ==
    /\ launch.status = "running" /\ launch.pc = "run"
    /\ launch' =
         LET l == operation_run(launch, "run", launch.loop_context)
         IN IF resolving_raises(launch, "run")
            THEN [l EXCEPT !.pc = "terminate", !.pending = "exception"]
            ELSE [l EXCEPT !.pc = "await_run", !.scheduled = Append(@, "run"),
                           !.run_tasks = scheduled_tasks(launch, "run"),
                           !.run_scheduled = TRUE]
    /\ UNCHANGED notLaunchVars

\* await _run_with_interrupts(asyncio.gather(*run_tasks)) ends; the run tasks are
\* cancelled.
launch_await_run ==
    /\ launch.status = "running" /\ launch.pc = "await_run"
    /\ \E outcome \in run_with_interrupts(gather(launch.run_tasks), launch.interrupted) :
          launch' = after_run(launch, outcome)
    /\ UNCHANGED notLaunchVars

\* finally: terminate_tasks = await call_all_parallel_async(
\* pm.get_operation_sequence('terminate')), and the wait for them; an exception of
\* the call or of a terminate task, or a second interrupt, ends the coroutine.
launch_terminate(outcome) ==
    /\ launch.status = "running" /\ launch.pc = "terminate"
    /\ launch' =
         LET l == operation_run(launch, "terminate", launch.loop_context)
             t == [l EXCEPT !.scheduled = Append(@, "terminate")]
         IN IF resolving_raises(launch, "terminate")
            THEN [l EXCEPT !.pc = "with_exit", !.pending = "exception"]
            ELSE CASE outcome = "failed" ->
                        [t EXCEPT !.pc = "with_exit", !.pending = "exception"]
                   [] outcome = "interrupted" -> [t EXCEPT !.pc = "with_exit"]
                   [] outcome = "completed" ->
                        [t EXCEPT !.pc = IF l.run_scheduled THEN "await_run_tasks"
                                         ELSE "with_exit"]
    /\ UNCHANGED notLaunchVars

\* if run_tasks is not None: await _run_with_interrupts(
\* asyncio.gather(*run_tasks, return_exceptions=True)), InterruptedError caught.
launch_await_run_tasks ==
    /\ launch.status = "running" /\ launch.pc = "await_run_tasks"
    /\ run_with_interrupts(gather_return_exceptions(launch.run_tasks), launch.interrupted) # {}
    /\ launch' = [launch EXCEPT !.pc = "with_exit", !.interrupted = FALSE]
    /\ UNCHANGED notLaunchVars

\* SIGINT or SIGTERM arrives while _run_with_interrupts waits.
launch_interrupt ==
    /\ launch.status = "running"
    /\ launch.pc \in {"await_init", "await_run", "await_run_tasks"}
    /\ ~launch.interrupted
    /\ launch' = [launch EXCEPT !.interrupted = TRUE, !.signalled = @ \cup {launch.pc}]
    /\ UNCHANGED notLaunchVars

\* A pending task goes on to its end: it returns, it raises, or it meets the
\* cancellation requested for it.
task_ends(t, how) ==
    /\ t.state = "pending"
    /\ how = "cancelled" => t.cancel_requested

\* An init task ends while the loop runs.
launch_init_task_ends(i, how) ==
    /\ launch.status = "running"
    /\ launch.pc \in {"await_init", "run", "await_run", "terminate", "await_run_tasks"}
    /\ i \in 1..Len(launch.init_tasks)
    /\ task_ends(launch.init_tasks[i], how)
    /\ launch' = [launch EXCEPT !.init_tasks[i].state = how]
    /\ UNCHANGED notLaunchVars

\* A run task ends while the loop runs.
launch_run_task_ends(i, how) ==
    /\ launch.status = "running"
    /\ launch.pc \in {"await_run", "terminate", "await_run_tasks"}
    /\ i \in 1..Len(launch.run_tasks)
    /\ task_ends(launch.run_tasks[i], how)
    /\ launch' = [launch EXCEPT !.run_tasks[i].state = how]
    /\ UNCHANGED notLaunchVars

\* The way out of with pm.as_current(): the ambient manager is reset, and
\* launch_application returns or the exception goes on.
launch_with_exit ==
    /\ launch.status = "running" /\ launch.pc = "with_exit"
    /\ launch' = [launch EXCEPT !.context = ContextVar_reset(@, launch.token),
                                !.status = IF launch.pending = "none" THEN "returned"
                                           ELSE "raised",
                                !.pc = "out"]
    /\ UNCHANGED notLaunchVars

Outcomes == {"completed", "interrupted", "failed"}
TaskEnds == {"done", "failed", "cancelled"}

NextLauncher ==
    \/ launch_as_current
    \/ \E raises \in BOOLEAN : launch_setup_cli_arguments(raises)
    \/ launch_parse
    \/ \E raises \in BOOLEAN : launch_receive_cli_arguments(raises)
    \/ \E found \in 0..MaxFiles, raises \in BOOLEAN : launch_bootstrap(found, raises)
    \/ launch_asyncio_run
    \/ launch_init
    \/ launch_await_init
    \/ launch_run
    \/ launch_await_run
    \/ \E outcome \in Outcomes : launch_terminate(outcome)
    \/ launch_await_run_tasks
    \/ launch_interrupt
    \/ \E i \in 1..MaxTasks, how \in TaskEnds : launch_init_task_ends(i, how)
    \/ \E i \in 1..MaxTasks, how \in TaskEnds : launch_run_task_ends(i, how)
    \/ launch_with_exit

SpecLauncher == InitLauncher /\ [][NextLauncher]_vars

(***************************************************************************)
(* The launcher: claims.                                                   *)
(***************************************************************************)
StartupOrder ==
    <<"setup_cli_arguments", "receive_cli_arguments", "bootstrap",
      "setup_cli_arguments", "receive_cli_arguments", "init">>

\* The positions of the log at which the operation was run.
runs_of(op) == {i \in 1..Len(launch.log) : launch.log[i].op = op}

\* C29: launch_application runs the startup operations in this order, under the
\* ambient scope of its manager: setup_cli_arguments, receive_cli_arguments,
\* bootstrap, setup_cli_arguments again, receive_cli_arguments again, and only then
\* init; when init is reached each of the two CLI operations has run exactly twice,
\* once before and once after bootstrap, and none of the startup operations runs
\* again afterwards.
C29_StartupOrder ==
    launch.status # "idle" =>
       /\ \A i \in 1..Len(launch.log) :
            IF i <= Len(StartupOrder)
            THEN /\ launch.log[i].op = StartupOrder[i]
                 /\ launch.log[i].ambient = "pm1"
            ELSE launch.log[i].op \notin Range(StartupOrder)
       /\ runs_of("init") # {} =>
            /\ Cardinality(runs_of("bootstrap")) = 1
            /\ \A op \in {"setup_cli_arguments", "receive_cli_arguments"} :
                  /\ Cardinality(runs_of(op)) = 2
                  /\ \E i \in runs_of(op), j \in runs_of(op), b \in runs_of("bootstrap") :
                        i < b /\ b < j /\ j < CHOOSE k \in runs_of("init") : TRUE

\* A launch called inside a scope of another manager, with a plain command line and
\* two application plugins found by bootstrap, has run the six startup operations,
\* run and terminate, and has returned.
C29_Witness ==
    /\ launch.status = "returned"
    /\ launch.argv = "plain"
    /\ launch.context = "pm2"
    /\ launch.app_plugins = 2
    /\ Len(launch.log) = 8
    /\ \A i \in 1..6 : launch.log[i].op = StartupOrder[i] /\ launch.log[i].ambient = "pm1"
    /\ launch.log[7].op = "run" /\ launch.log[8].op = "terminate"

\* launch_application has ended, by return or by an exception.
Ended == launch.status \in {"returned", "raised"}

\* How many times the tasks of the operation were scheduled.
times_scheduled(op) == Cardinality({i \in 1..Len(launch.scheduled) : launch.scheduled[i] = op})

\* C33, as the specification states it: terminate is scheduled exactly once on
\* every path of run_async_operations after its try block is entered.
C33_Original ==
    launch.status # "idle" =>
       /\ times_scheduled("terminate") <= 1
       /\ (Ended /\ launch.try_entered) => times_scheduled("terminate") = 1

\* C33, as the code behaves: on every path of run_async_operations after its try
\* block is entered -- resolving or running init fails, init is interrupted, run is
\* interrupted, run completes or fails -- the terminate operation is invoked exactly
\* once, and its steps are scheduled exactly once unless resolving terminate itself
\* raises; then none of its steps is scheduled and the exception leaves the launch.
C33_TerminateOnce ==
    launch.status # "idle" =>
       /\ Cardinality(runs_of("terminate")) <= 1
       /\ times_scheduled("terminate") <= Cardinality(runs_of("terminate"))
       /\ ~launch.try_entered => runs_of("terminate") = {}
       /\ (Ended /\ launch.try_entered) =>
             /\ Cardinality(runs_of("terminate")) = 1
             /\ IF launch.cyclic = "terminate"
                THEN times_scheduled("terminate") = 0 /\ launch.status = "raised"
                ELSE times_scheduled("terminate") = 1

\* An interrupt ended the wait for the two init tasks; terminate was scheduled once
\* and the launch has returned without scheduling run.
C33_Witness ==
    /\ launch.status = "returned"
    /\ launch.steps["init"] = 2
    /\ "await_init" \in launch.signalled
    /\ launch.scheduled = <<"init", "terminate">>

\* C34: the steps of the run operation are scheduled only after every init task has
\* completed without error; when an interrupt signal arrives during init, or an init
\* task fails, no step of run is ever started.
C34_RunAfterInit ==
    launch.status # "idle" =>
       /\ times_scheduled("run") > 0 =>
             \A i \in 1..Len(launch.init_tasks) : launch.init_tasks[i].state = "done"
       /\ ("await_init" \in launch.signalled
             \/ \E i \in 1..Len(launch.init_tasks) : launch.init_tasks[i].state = "failed")
          => times_scheduled("run") = 0

\* Every run task has been asked to cancel.
run_tasks_cancelled ==
    \A i \in 1..Len(launch.run_tasks) : launch.run_tasks[i].cancel_requested

\* C35: once the run operation has been scheduled, cancellation is requested for
\* every run task before any step of terminate is scheduled, however the run phase
\* ends: by an interrupt, by completion, or by the failure of a run task.
C35_CancelBeforeTerminate ==
    (launch.status # "idle" /\ times_scheduled("run") > 0) =>
       ((launch.pc = "terminate" \/ runs_of("terminate") # {}) => run_tasks_cancelled)

\* The run phase with two tasks ended because one of them failed while the other was
\* still pending; both have been asked to cancel and terminate has been scheduled.
C35_Witness ==
    /\ times_scheduled("run") = 1 /\ times_scheduled("terminate") = 1
    /\ Len(launch.run_tasks) = 2
    /\ launch.run_tasks[1].state = "failed"
    /\ launch.run_tasks[2] = [state |-> "pending", cancel_requested |-> TRUE]
    /\ "await_run" \notin launch.signalled


(***************************************************************************)
(* A compute that raises.                                                  *)
(***************************************************************************)

\* The last operation_cache call ended with the exception of its compute.
compute_raised == lastCall.kind = "call" /\ lastCall.raised

\* C37: when compute raises inside operation_cache(op, key, compute), the call
\* raises what compute raised, no entry is stored for (op, key), every other entry
\* is as it was before the call, and the next operation_cache call for (op, key)
\* runs its compute again.
C37_RaisingComputeStoresNothing ==
    /\ [](compute_raised =>
            /\ lastCall.computed /\ lastCall.compute.raises
            /\ lastCall.ret = NotGiven
            /\ ~live(op_cache, lastCall.op_name, lastCall.key)
            /\ \A o \in Ops, k \in Keys :
                 /\ live(op_cache, o, k) <=> live(lastCall.before, o, k)
                 /\ live(op_cache, o, k) => op_cache[o][k] = lastCall.before[o][k])
    /\ [][(/\ compute_raised
           /\ lastCall'.kind = "call"
           /\ lastCall'.op_name = lastCall.op_name
           /\ lastCall'.key = lastCall.key)
          => /\ lastCall'.computed
             /\ ~lastCall'.compute.raises => lastCall'.ret = Given(lastCall'.compute.value)]_vars

\* A compute raised for ("init", "k1"), for which nothing is stored, while
\* ("init", "k2") and ("run", "k1") held values.
C37_Witness ==
    /\ compute_raised
    /\ lastCall.op_name = "init" /\ lastCall.key = "k1"
    /\ live(op_cache, "init", "k2") /\ live(op_cache, "run", "k1")
    /\ stores["init"]["k1"] = 0
    /\ stores["init"]["k2"] > 0


(***************************************************************************)
(* A drop of keys that are not all cached.                                 *)
(***************************************************************************)

\* C39: drop_operation_cache(operations=O, keys=K) returns without raising from
\* every cache state, also when an operation of O has entries but not for every
\* key of K; the other keys of K and the later operations of O are dropped all the
\* same, so no entry (o, k) with o in O and k in K is left.
C39_DropKeysNeverRaises ==
    (/\ lastDrop.kind = "drop"
     /\ lastDrop.operations.given
     /\ lastDrop.keys.given)
    => /\ ~lastDrop.raised
       /\ \A i \in 1..Len(lastDrop.operations.value), j \in 1..Len(lastDrop.keys.value) :
            ~live(op_cache, lastDrop.operations.value[i], lastDrop.keys.value[j])


(***************************************************************************)
(* One handle under two managers.  A MagicOperation holds only its         *)
(* operation name and cache_steps; PluginManager.current() gives the       *)
(* manager whose get_operation_sequence and operation_cache are used, and  *)
(* every PluginManagerImpl gets its own _op_cache in __init__.             *)
(***************************************************************************)
\* The plugin sets a manager is built with.
ManagerPlugins ==
    UNION {UNION {{plugin_set(contributed(nm, es, n), n) :
                      es \in SeqUpTo([step : 1..n, kind : {"dep", "rdep"}, target : Names],
                                     MaxManagerEdges)} :
                  nm \in {x \in [1..n -> Names] : first_use_order(x)}} :
           n \in 0..MaxManagerSteps}

\* PluginManagerImpl(plugins): self._plugins and a new, empty self._op_cache.
PluginManagerImpl(ps) == [plugins |-> ps, op_cache |-> <<>>]

\* Mutant of manager_get_steps: the cache is one dict shared by all managers.
manager_get_steps_shared_cache(pm, ctx, op_name, cache_steps) ==
    IF ~current(ctx).ok
    THEN [pm |-> pm, ran |-> FALSE, raised |-> TRUE, steps |-> <<>>]
    ELSE [pm |-> [pm EXCEPT !["pm1"].op_cache =
                     get_steps(pm["pm1"].op_cache, pm[current(ctx).value].plugins,
                               op_name, cache_steps).cache],
          ran |-> get_steps(pm["pm1"].op_cache, pm[current(ctx).value].plugins,
                            op_name, cache_steps).ran,
          raised |-> get_steps(pm["pm1"].op_cache, pm[current(ctx).value].plugins,
                               op_name, cache_steps).raised,
          steps |-> get_steps(pm["pm1"].op_cache, pm[current(ctx).value].plugins,
                              op_name, cache_steps).steps]

\* MagicOperation.get_steps where ctx is the content of PluginManager._current:
\* the resolver and the cache are those of PluginManager.current().
manager_get_steps(pm, ctx, op_name, cache_steps) ==
    IF ~current(ctx).ok
    THEN [pm |-> pm, ran |-> FALSE, raised |-> TRUE, steps |-> <<>>]
    ELSE [pm |-> [pm EXCEPT ![current(ctx).value].op_cache =
                     get_steps(pm[current(ctx).value].op_cache,
                               pm[current(ctx).value].plugins, op_name, cache_steps).cache],
          ran |-> get_steps(pm[current(ctx).value].op_cache,
                            pm[current(ctx).value].plugins, op_name, cache_steps).ran,
          raised |-> get_steps(pm[current(ctx).value].op_cache,
                               pm[current(ctx).value].plugins, op_name, cache_steps).raised,
          steps |-> get_steps(pm[current(ctx).value].op_cache,
                              pm[current(ctx).value].plugins, op_name, cache_steps).steps]

\* The step list a manager's cache holds for the operation.
cached_steps(m, op_name) == m.op_cache[op_name][OPERATION_STEPS_CACHE_KEY]
has_cached_steps(m, op_name) == live(m.op_cache, op_name, OPERATION_STEPS_CACHE_KEY)

InitManagers ==
    /\ plugins = plugin_set(<<>>, 0)
    /\ ResolverIdle
    /\ CacheIdle
    /\ ConcIdle
    /\ AmbientIdle
    /\ ChainIdle
    /\ RunnersIdle
    /\ HandleIdle
    /\ LaunchIdle
    /\ DiscoveryIdle
    /\ \E ps1 \in ManagerPlugins, ps2 \in ManagerPlugins :
         managers = [status |-> "active",
                     pm |-> ("pm1" :> PluginManagerImpl(ps1)) @@ ("pm2" :> PluginManagerImpl(ps2)),
                     context |-> MISSING,
                     token |-> NoToken,
                     dropped |-> [m \in Managers |-> FALSE],
                     last |-> NoGetSteps]

\* with pm.as_current(): the body is entered
managers_as_current(m) ==
    /\ managers.status = "active"
    /\ managers.token = NoToken
    /\ managers' = [managers EXCEPT !.context = ContextVar_set(managers.context, m).ctx,
                                    !.token = ContextVar_set(managers.context, m).token,
                                    !.last = NoGetSteps]
    /\ UNCHANGED notManagersVars

\* with pm.as_current(): the body is left
managers_exit ==
    /\ managers.status = "active"
    /\ managers.token # NoToken
    /\ managers' = [managers EXCEPT !.context = ContextVar_reset(managers.context, managers.token),
                                    !.token = NoToken,
                                    !.last = NoGetSteps]
    /\ UNCHANGED notManagersVars

\* op.get_steps() on the handle of op_name made with cache_steps
managers_get_steps(op_name, cache_steps) ==
    /\ managers.status = "active"
    /\ managers' =
         [managers EXCEPT
            !.pm = manager_get_steps(managers.pm, managers.context, op_name, cache_steps).pm,
            !.last = [kind |-> "get_steps", manager |-> managers.context,
                      op_name |-> op_name, cache_steps |-> cache_steps,
                      ran |-> manager_get_steps(managers.pm, managers.context,
                                                op_name, cache_steps).ran,
                      raised |-> manager_get_steps(managers.pm, managers.context,
                                                   op_name, cache_steps).raised,
                      steps |-> manager_get_steps(managers.pm, managers.context,
                                                  op_name, cache_steps).steps,
                      before |-> managers.pm]]
    /\ UNCHANGED notManagersVars

\* m.drop_operation_cache(operations=...) on one of the managers
managers_drop(m, operations) ==
    /\ managers.status = "active"
    /\ managers' =
         [managers EXCEPT
            !.pm[m].op_cache =
                drop_operation_cache_call(@, operations, NotGiven, NotGiven).cache,
            !.dropped[m] = @ \/ \E op \in Ops :
                /\ has_cached_steps(managers.pm[m], op)
                /\ covers(operations, NotGiven, op),
            !.last = [kind |-> "drop", manager |-> m]]
    /\ UNCHANGED notManagersVars

NextManagers ==
    \/ \E m \in Managers : managers_as_current(m)
    \/ managers_exit
    \/ \E op \in Ops, cache_steps \in BOOLEAN : managers_get_steps(op, cache_steps)
    \/ \E m \in Managers, os \in Optional(SeqUpTo(Ops, 1)) : managers_drop(m, os)

SpecManagers == InitManagers /\ [][NextManagers]_vars

\* The last call was get_steps of a handle with cache_steps, under manager m.
cached_call_under(m) ==
    /\ managers.status = "active"
    /\ managers.last.kind = "get_steps"
    /\ managers.last.cache_steps
    /\ managers.last.manager = m

\* C38: the step sequence a handle with cache_steps gives is the one of the manager
\* that is ambient at the call: it is what that manager resolves from its own
\* plugins, it is served from and stored in that manager's cache only, whatever
\* another manager has cached for the same handle, and a drop on one manager leaves
\* the cache of the other as it was.
C38_CachePerManager ==
    /\ [](\A m \in Managers : (cached_call_under(m) /\ ~managers.last.raised) =>
            /\ ~get_steps_no_cache(managers.pm[m].plugins, managers.last.op_name).raised
            /\ managers.last.steps =
                  get_steps_no_cache(managers.pm[m].plugins, managers.last.op_name).steps
            /\ has_cached_steps(managers.pm[m], managers.last.op_name)
            /\ cached_steps(managers.pm[m], managers.last.op_name) = managers.last.steps
            /\ managers.last.ran <=> ~has_cached_steps(managers.last.before[m],
                                                       managers.last.op_name)
            /\ \A o \in Managers \ {m} : managers.pm[o] = managers.last.before[o])
    /\ [][\A m \in Managers :
            (managers'.status = "active" /\ managers'.last.kind = "drop"
             /\ managers'.last.manager = m)
            => \A o \in Managers \ {m} : managers'.pm[o] = managers.pm[o]]_vars

\* The handle is used under pm2 and gives pm2's steps while pm1, whose cache was
\* dropped before and filled again, holds another sequence for the same handle.
C38_Witness ==
    /\ cached_call_under("pm2")
    /\ managers.last.op_name = "init"
    /\ ~managers.last.raised
    /\ managers.dropped["pm1"]
    /\ ~managers.last.ran
    /\ has_cached_steps(managers.pm["pm1"], "init")
    /\ cached_steps(managers.pm["pm1"], "init") # managers.last.steps
    /\ Len(managers.last.steps) > 0


(***************************************************************************)
(* Plugins registered during bootstrap and the manager's sequences.        *)
(***************************************************************************)

\* The step at position i of the stream is not discarded: no earlier step has its name.
first_of_its_name(stream, i) == \A j \in 1..(i - 1) : stream[j].name # stream[i].name

\* C40: the manager collects the steps from its plugins at every
\* get_operation_sequence call.  Whatever the discovery plugin has registered so
\* far, the next call ingests, for each operation, the steps of the registered
\* plugins in the order of their discovery, then the discovery plugin's own steps,
\* then those of the plugins after it, and yields every ingested step that the
\* duplicate rule keeps.  The two lists bootstrap made before its loop stay those of
\* the plugins the manager had then: every file is offered to exactly the steps of
\* the first list and every plugin is announced to steps of the second list only.
C40_StepsAnewAtEveryCall ==
    discovery.status # "idle" =>
       /\ \A op \in DiscoveryOps :
             LET found == discovery.registered
                 stream == ingest_order(manager_plugins(found), op)
             IN /\ stream = Concat([i \in 1..Len(found) |-> discovered_steps(found[i], op)])
                               \o own_steps(op) \o listener_steps(op)
                /\ ~sequence_with(found, op).raised
                /\ \A i \in 1..Len(stream) :
                      first_of_its_name(stream, i)
                         => stream[i] \in Range(sequence_with(found, op).steps)
       /\ discovery.status \in {"bootstrap", "done"} =>
             /\ discovery.snapshot.plugin_discover_op =
                   sequence_with(<<>>, "discover_plugins_at_path").steps
             /\ discovery.snapshot.plugin_discovered_op =
                   sequence_with(<<>>, "plugin_discovered").steps
             /\ \A op \in DiscoveryOps :
                   discovery_sequence(op).steps = sequence_with(<<>>, op).steps
             /\ \A k \in 1..Len(discovery.log) :
                   discovery.log[k].outer.steps = discovery.snapshot.plugin_discover_op
             /\ \A i \in 1..Len(discovery.announced) :
                   \E j \in 1..Len(discovery.snapshot.plugin_discovered_op) :
                      discovery.announced[i].step =
                         discovery.snapshot.plugin_discovered_op[j].step

\* Bootstrap found p1 in the first file and p2 in the second: the manager now
\* resolves plugin_discovered to the steps of p1, of p2 and of the listener, in that
\* order, and discover_plugins_at_path to four steps, while the second file was
\* offered to the two steps of the list made before the loop and p2 was announced
\* to the listener only.
C40_Witness ==
    /\ discovery.status = "done"
    /\ Len(discovery.log) = 2
    /\ Len(discovery.registered) = 2
    /\ discovery.registered[1].name = "p1" /\ discovery.registered[1].file = "m1.py"
    /\ discovery.registered[2].name = "p2" /\ discovery.registered[2].file = "m2.py"
    /\ sequence_with(discovery.registered, "plugin_discovered").steps =
          discovered_steps(discovery.registered[1], "plugin_discovered")
          \o discovered_steps(discovery.registered[2], "plugin_discovered")
          \o listener_steps("plugin_discovered")
    /\ Len(sequence_with(discovery.registered, "discover_plugins_at_path").steps) = 4
    /\ Len(discovery.log[2].outer.steps) = 2
    /\ Len(discovery.announced) = 2
    /\ discovery.announced[2].step = "plugin_discovered"
    /\ discovery.announced[2].args = discovery.registered[2]

====
